------------------------------ MODULE Spec2Model ------------------------------
(***************************************************************************)
(* Axiom Assistant: the intent router, the streaming orchestrator and the  *)
(* token producer of the generative module, as a state machine.            *)
(*                                                                         *)
(* Text is a sequence of characters, each a one-character string.  Three   *)
(* characters outside ASCII are written by their code point ("U+2713"),    *)
(* and "z*10000" stands for a run of 10000 letters z ("z*9996" for 9996 of *)
(* them), so that texts longer than the length limits of the code stay     *)
(* small values.  No keyword or pattern of the code contains the letter z, *)
(* so a run never takes part in a match.                                   *)
(***************************************************************************)
EXTENDS Integers, Sequences, FiniteSets, TLC

(***************************************************************************)
(* Characters and strings (std::str, std::char)                            *)
(***************************************************************************)
ZRun == "z*10000"

ZRunShort == "z*9996"

LowerLetters ==
    {"a", "b", "c", "d", "e", "f", "g", "h", "i", "j", "k", "l", "m", "n", "o", "p", "q", "r", "s", "t", "u", "v", "w", "x", "y", "z"}

UpperLetters ==
    {"A", "B", "C", "D", "E", "F", "G", "H", "I", "J", "K", "L", "M", "N", "O", "P", "Q", "R", "S", "T", "U", "V", "W", "X", "Y", "Z"}

Digits ==
    {"0", "1", "2", "3", "4", "5", "6", "7", "8", "9"}

LowerOf ==
    [c \in UpperLetters |->
        CASE c = "A" -> "a"
          [] c = "B" -> "b"
          [] c = "C" -> "c"
          [] c = "D" -> "d"
          [] c = "E" -> "e"
          [] c = "F" -> "f"
          [] c = "G" -> "g"
          [] c = "H" -> "h"
          [] c = "I" -> "i"
          [] c = "J" -> "j"
          [] c = "K" -> "k"
          [] c = "L" -> "l"
          [] c = "M" -> "m"
          [] c = "N" -> "n"
          [] c = "O" -> "o"
          [] c = "P" -> "p"
          [] c = "Q" -> "q"
          [] c = "R" -> "r"
          [] c = "S" -> "s"
          [] c = "T" -> "t"
          [] c = "U" -> "u"
          [] c = "V" -> "v"
          [] c = "W" -> "w"
          [] c = "X" -> "x"
          [] c = "Y" -> "y"
          [] c = "Z" -> "z"]

\* str::len counts bytes of the UTF-8 encoding.
Width(c) ==
    IF c = ZRun THEN 10000
    ELSE IF c = ZRunShort THEN 9996
    ELSE IF c \in {"U+2713", "U+2717", "U+2192"} THEN 3
    ELSE 1

RECURSIVE StrLenFrom(_, _)
StrLenFrom(s, i) ==
    IF i > Len(s) THEN 0 ELSE Width(s[i]) + StrLenFrom(s, i + 1)

StrLen(s) == StrLenFrom(s, 1)

IsWhitespace(c) == c \in {" ", "\t", "\n", "\r"}

IsAsciiDigit(c) == c \in Digits

IsAlphanumeric(c) == c \in LowerLetters \cup UpperLetters \cup Digits \cup {ZRun, ZRunShort}

ToLowercase(s) ==
    [i \in 1..Len(s) |-> IF s[i] \in UpperLetters THEN LowerOf[s[i]] ELSE s[i]]

\* str::contains(pat): pat occurs at some position of s
Contains(s, pat) ==
    \E i \in 0..(Len(s) - Len(pat)) :
        \A j \in 1..Len(pat) : s[i + j] = pat[j]

\* str::split_whitespace: the maximal runs of non-whitespace characters
RECURSIVE SplitFrom(_, _, _, _)
SplitFrom(s, i, cur, acc) ==
    IF i > Len(s)
    THEN IF cur = <<>> THEN acc ELSE Append(acc, cur)
    ELSE IF IsWhitespace(s[i])
         THEN SplitFrom(s, i + 1, <<>>, IF cur = <<>> THEN acc ELSE Append(acc, cur))
         ELSE SplitFrom(s, i + 1, Append(cur, s[i]), acc)

SplitWhitespace(s) == SplitFrom(s, 1, <<>>, <<>>)

\* str::trim
RECURSIVE TrimStart(_)
TrimStart(s) ==
    IF s # <<>> /\ IsWhitespace(Head(s)) THEN TrimStart(Tail(s)) ELSE s

RECURSIVE TrimEnd(_)
TrimEnd(s) ==
    IF s # <<>> /\ IsWhitespace(s[Len(s)]) THEN TrimEnd(SubSeq(s, 1, Len(s) - 1)) ELSE s

Trim(s) == TrimEnd(TrimStart(s))

IsPrefix(p, s) == Len(p) <= Len(s) /\ SubSeq(s, 1, Len(p)) = p

(***************************************************************************)
(* NeuroSymbolicRouter (modules/neuro_symbolic.rs)                         *)
(***************************************************************************)

math_keywords ==
    { <<"c", "a", "l", "c", "u", "l", "a", "t", "e">>,
      <<"s", "o", "l", "v", "e">>,
      <<"p", "r", "o", "v", "e">>,
      <<"v", "e", "r", "i", "f", "y">>,
      <<"c", "o", "m", "p", "u", "t", "e">>,
      <<"=">>,
      <<"+">>,
      <<"-">>,
      <<"*">>,
      <<"/">>,
      <<"^">>,
      <<"%">>,
      <<"m", "a", "t", "h">>,
      <<"e", "q", "u", "a", "t", "i", "o", "n">> }

creative_keywords ==
    { <<"w", "r", "i", "t", "e">>,
      <<"s", "u", "g", "g", "e", "s", "t">>,
      <<"e", "x", "p", "l", "a", "i", "n">>,
      <<"d", "e", "s", "c", "r", "i", "b", "e">>,
      <<"w", "h", "y">>,
      <<"h", "o", "w", " ", "d", "o", "e", "s">>,
      <<"w", "h", "a", "t", " ", "i", "s">>,
      <<"t", "e", "l", "l", " ", "m", "e", " ", "a", "b", "o", "u", "t">>,
      <<"s", "t", "o", "r", "y">>,
      <<"p", "o", "e", "m">> }

has_math(query) ==
    \E kw \in math_keywords : Contains(ToLowercase(query), kw)

has_creative(query) ==
    \E kw \in creative_keywords : Contains(ToLowercase(query), kw)

\* faulty variant: no digit check when neither keyword list matches
classify_intent_NoDigitCheck(query) ==
    CASE has_math(query) /\ ~has_creative(query) -> "Logical"
      [] ~has_math(query) /\ has_creative(query) -> "Creative"
      [] has_math(query) /\ has_creative(query) -> "Hybrid"
      [] OTHER -> "Creative"

classify_intent(query) ==
    CASE has_math(query) /\ ~has_creative(query) -> "Logical"
      [] ~has_math(query) /\ has_creative(query) -> "Creative"
      [] has_math(query) /\ has_creative(query) -> "Hybrid"
      [] OTHER ->
            IF \E i \in 1..Len(query) : IsAsciiDigit(query[i])
            THEN "Hybrid"
            ELSE "Creative"

(***************************************************************************)
(* Results: anyhow::Result<String> as a record                             *)
(***************************************************************************)
Ok(v) == [ok |-> TRUE, text |-> v]

Err(e) == [ok |-> FALSE, text |-> e]

\* format!("{}", n) for an unsigned integer
RECURSIVE UsizeToString(_)
UsizeToString(n) ==
    LET d == CASE n % 10 = 0 -> "0" [] n % 10 = 1 -> "1" [] n % 10 = 2 -> "2"
               [] n % 10 = 3 -> "3" [] n % 10 = 4 -> "4" [] n % 10 = 5 -> "5"
               [] n % 10 = 6 -> "6" [] n % 10 = 7 -> "7" [] n % 10 = 8 -> "8"
               [] OTHER -> "9"
    IN  IF n < 10 THEN <<d>> ELSE Append(UsizeToString(n \div 10), d)

(***************************************************************************)
(* DeterministicModule (modules/deterministic.rs)                          *)
(***************************************************************************)
\* DetConfig.max_query_length, the default of init_deterministic_module
max_query_length == 10000


SanitizeAllowed ==
    <<"+", "-", "*", "/", "^", "%", "(", ")", ".", "=", ":", ",", "_", "[", "]">>

MsgNoValidChars ==
    <<"Q", "u", "e", "r", "y", " ", "c", "o", "n", "t", "a", "i", "n", "s", " ", "n", "o", " ",
      "v", "a", "l", "i", "d", " ", "c", "h", "a", "r", "a", "c", "t", "e", "r", "s">>

MsgDetEmpty ==
    <<"Q", "u", "e", "r", "y", " ", "c", "a", "n", "n", "o", "t", " ", "b", "e", " ", "e", "m",
      "p", "t", "y">>

MsgDetTooLongPre ==
    <<"Q", "u", "e", "r", "y", " ", "e", "x", "c", "e", "e", "d", "s", " ", "m", "a", "x", "i",
      "m", "u", "m", " ", "l", "e", "n", "g", "t", "h", " ", "o", "f", " ">>

MsgDetTooLongPost ==
    <<" ", "c", "h", "a", "r", "a", "c", "t", "e", "r", "s">>

MsgMathFailed ==
    <<"M", "a", "t", "h", " ", "e", "v", "a", "l", "u", "a", "t", "i", "o", "n", " ", "f", "a",
      "i", "l", "e", "d", ":", " ">>

MsgNotRecognized ==
    <<"[", "d", "e", "t", "e", "r", "m", "i", "n", "i", "s", "t", "i", "c", ":", " ", "q", "u",
      "e", "r", "y", " ", "t", "y", "p", "e", " ", "n", "o", "t", " ", "r", "e", "c", "o", "g",
      "n", "i", "z", "e", "d", "]">>

EvalErrText ==
    <<"e", "v", "a", "l", "e", "x", "p", "r", " ", "e", "r", "r", "o", "r">>

KwAncestor ==
    <<"a", "n", "c", "e", "s", "t", "o", "r">>

KwMember ==
    <<"m", "e", "m", "b", "e", "r">>

ProofAncestor ==
    <<"%", " ", "Q", "u", "e", "r", "y", ":", " ", "a", "n", "c", "e", "s", "t", "o", "r", "(",
      "X", ",", " ", "Y", ")", "\n", "%", " ", "R", "u", "l", "e", ":", " ", "a", "n", "c",
      "e", "s", "t", "o", "r", "(", "X", ",", " ", "Y", ")", " ", ":", "-", " ", "p", "a", "r",
      "e", "n", "t", "(", "X", ",", " ", "Y", ")", ".", "\n", "%", " ", "R", "u", "l", "e",
      ":", " ", "a", "n", "c", "e", "s", "t", "o", "r", "(", "X", ",", " ", "Y", ")", " ", ":",
      "-", " ", "p", "a", "r", "e", "n", "t", "(", "X", ",", " ", "Z", ")", ",", " ", "a", "n",
      "c", "e", "s", "t", "o", "r", "(", "Z", ",", " ", "Y", ")", ".", "\n", "%", " ", "F",
      "a", "c", "t", ":", " ", "p", "a", "r", "e", "n", "t", "(", "z", "e", "u", "s", ",", " ",
      "h", "e", "r", "c", "u", "l", "e", "s", ")", ".", "\n", "%", " ", "P", "r", "o", "o",
      "f", ":", " ", "a", "n", "c", "e", "s", "t", "o", "r", "(", "z", "e", "u", "s", ",", " ",
      "h", "e", "r", "c", "u", "l", "e", "s", ")", " ", "b", "y", " ", "p", "a", "r", "e", "n",
      "t", "(", "z", "e", "u", "s", ",", " ", "h", "e", "r", "c", "u", "l", "e", "s", ")", ".",
      "\n", "%", " ", "R", "e", "s", "u", "l", "t", ":", " ", "t", "r", "u", "e">>

ProofMember ==
    <<"%", " ", "Q", "u", "e", "r", "y", ":", " ", "m", "e", "m", "b", "e", "r", "(", "X", ",",
      " ", "L", "i", "s", "t", ")", "\n", "%", " ", "R", "u", "l", "e", ":", " ", "m", "e",
      "m", "b", "e", "r", "(", "X", ",", " ", "[", "X", "|", "_", "]", ")", ".", "\n", "%",
      " ", "R", "u", "l", "e", ":", " ", "m", "e", "m", "b", "e", "r", "(", "X", ",", " ", "[",
      "_", "|", "T", "]", ")", " ", ":", "-", " ", "m", "e", "m", "b", "e", "r", "(", "X", ",",
      " ", "T", ")", ".", "\n", "%", " ", "R", "e", "s", "u", "l", "t", ":", " ", "d", "e",
      "t", "e", "r", "m", "i", "n", "i", "s", "t", "i", "c", " ", "t", "r", "a", "v", "e", "r",
      "s", "a", "l">>

logic_keywords ==
    { <<"a", "n", "c", "e", "s", "t", "o", "r">>,
      <<"p", "a", "r", "e", "n", "t">>,
      <<"m", "e", "m", "b", "e", "r">>,
      <<"a", "p", "p", "e", "n", "d">>,
      <<"r", "u", "l", "e">>,
      <<"f", "a", "c", "t">> }

sanitize_chars(query) ==
    SelectSeq(query, LAMBDA c :
        IsAlphanumeric(c) \/ IsWhitespace(c)
            \/ \E i \in 1..Len(SanitizeAllowed) : SanitizeAllowed[i] = c)

sanitize_query(query) ==
    IF sanitize_chars(query) = <<>>
    THEN Err(MsgNoValidChars)
    ELSE Ok(sanitize_chars(query))

looks_like_math(s) ==
    \/ \E i \in 1..Len(s) : s[i] \in {"+", "-", "*", "/", "^", "%"}
    \/ \A i \in 1..Len(Trim(s)) :
          LET c == Trim(s)[i]
          IN  IsAsciiDigit(c) \/ IsWhitespace(c) \/ c \in {"(", ")", "."}

looks_like_logic(s) ==
    \/ \E kw \in logic_keywords : Contains(ToLowercase(s), kw)
    \/ Contains(s, <<":", "-">>)
    \/ Contains(s, <<"?", "-">>)

\* evalexpr::eval_float is a library outside this repository: its answer for
\* an expression is an input of the model, a float's text or an error's text.
EvalFloatAnswers ==
    { Ok(<<"4">>), Err(EvalErrText) }

execute_math(query, answer) ==
    IF answer.ok
    THEN Ok(answer.text)
    ELSE Err(MsgMathFailed \o answer.text)

execute_prolog(query) ==
    IF Contains(query, KwAncestor) THEN Ok(ProofAncestor)
    ELSE IF Contains(query, KwMember) THEN Ok(ProofMember)
    ELSE LET MsgNoRulePre ==
                 <<"[", "d", "e", "t", "e", "r", "m", "i", "n", "i", "s", "t", "i", "c", ":", " ", "n", "o",
                   " ", "m", "a", "t", "c", "h", "i", "n", "g", " ", "l", "o", "g", "i", "c", " ", "r", "u",
                   "l", "e", " ", "f", "o", "r", " ", "'">>
             MsgNoRulePost ==
                 <<"'", "]">>
         IN  Ok(MsgNoRulePre \o query \o MsgNoRulePost)

\* faulty variant: execute_logic without its own length check
execute_logic_NoLengthCheck(query, answer) ==
    IF query = <<>> THEN Err(MsgDetEmpty)
    ELSE IF ~sanitize_query(query).ok THEN sanitize_query(query)
    ELSE LET sanitized_query == sanitize_query(query).text
         IN  IF looks_like_math(sanitized_query)
             THEN execute_math(sanitized_query, answer)
             ELSE IF looks_like_logic(sanitized_query)
             THEN execute_prolog(sanitized_query)
             ELSE Ok(MsgNotRecognized)

\* execute_logic(query); answer is what eval_float returns if it is called
execute_logic(query, answer) ==
    IF query = <<>> THEN Err(MsgDetEmpty)
    ELSE IF StrLen(query) > max_query_length
    THEN Err(MsgDetTooLongPre \o UsizeToString(max_query_length) \o MsgDetTooLongPost)
    ELSE IF ~sanitize_query(query).ok THEN sanitize_query(query)
    ELSE LET sanitized_query == sanitize_query(query).text
         IN  IF looks_like_math(sanitized_query)
             THEN execute_math(sanitized_query, answer)
             ELSE IF looks_like_logic(sanitized_query)
             THEN execute_prolog(sanitized_query)
             ELSE Ok(MsgNotRecognized)

\* whether execute_logic(query) reaches eval_float
CallsEvalFloat(query) ==
    /\ query # <<>>
    /\ StrLen(query) <= max_query_length
    /\ sanitize_query(query).ok
    /\ looks_like_math(sanitize_query(query).text)

(***************************************************************************)
(* ProbabilisticModule (modules/probabilistic.rs)                          *)
(***************************************************************************)
\* ModelConfig defaults of load_local_llm
max_tokens == 2048

temperature == <<"0", ".", "7">>

\* the prompt limit of infer
MaxPromptLen == 10000

\* the capacity of the token channel of stream_tokens
ChannelCapacity == 16


MsgPromptEmpty ==
    <<"P", "r", "o", "m", "p", "t", " ", "c", "a", "n", "n", "o", "t", " ", "b", "e", " ", "e",
      "m", "p", "t", "y">>

MsgPromptTooLongPre ==
    <<"P", "r", "o", "m", "p", "t", " ", "e", "x", "c", "e", "e", "d", "s", " ", "m", "a", "x",
      "i", "m", "u", "m", " ", "l", "e", "n", "g", "t", "h", " ", "o", "f", " ">>

infer(prompt) ==
    IF prompt = <<>> THEN Err(MsgPromptEmpty)
    ELSE IF StrLen(prompt) > MaxPromptLen
    THEN Err(MsgPromptTooLongPre \o UsizeToString(MaxPromptLen) \o MsgDetTooLongPost)
    ELSE LET DraftTagPre ==
                 <<"\n", "\n", "[", "L", "L", "M", " ", "d", "r", "a", "f", "t", " ", "-", " ", "t", "e",
                   "m", "p", ":", " ">>
             DraftTagMid ==
                 <<",", " ", "m", "a", "x", "_", "t", "o", "k", "e", "n", "s", ":", " ">>
         IN  Ok(prompt \o DraftTagPre \o temperature \o DraftTagMid
                  \o UsizeToString(max_tokens) \o <<"]">>)

\* the tokens the producer task of stream_tokens sends, in order: every
\* whitespace-separated fragment followed by a space, then the newline
CompletionToken == <<"\n">>

FragmentTokens(prompt) ==
    [i \in 1..Len(SplitWhitespace(prompt)) |-> Append(SplitWhitespace(prompt)[i], " ")]

(***************************************************************************)
(* extract_claims (ipc/orchestrator.rs)                                    *)
(***************************************************************************)
\* the index after the longest run of digits that starts at i (i if none)
RECURSIVE DigitsEnd(_, _)
DigitsEnd(s, i) ==
    IF i <= Len(s) /\ IsAsciiDigit(s[i]) THEN DigitsEnd(s, i + 1) ELSE i

RECURSIVE SpaceEnd(_, _)
SpaceEnd(s, i) ==
    IF i <= Len(s) /\ IsWhitespace(s[i]) THEN SpaceEnd(s, i + 1) ELSE i

\* \d+(?:\.\d+)? at i: the index after the match, or 0 for no match
NumEnd(s, i) ==
    LET e == DigitsEnd(s, i)
    IN  IF e = i THEN 0
        ELSE IF e <= Len(s) /\ s[e] = "." /\ DigitsEnd(s, e + 1) > e + 1
             THEN DigitsEnd(s, e + 1)
             ELSE e

\* (?:\s*[+\-*/]\s*\d+(?:\.\d+)?) at i: the index after the match, or 0
OpNumEnd(s, i) ==
    LET o == SpaceEnd(s, i)
    IN  IF o <= Len(s) /\ s[o] \in {"+", "-", "*", "/"}
        THEN NumEnd(s, SpaceEnd(s, o + 1))
        ELSE 0

RECURSIVE OpNumsEnd(_, _)
OpNumsEnd(s, i) ==
    IF OpNumEnd(s, i) = 0 THEN i ELSE OpNumsEnd(s, OpNumEnd(s, i))

\* faulty variant: the pattern takes one (operator, number), not a chain
ExprEnd_OneOperator(s, i) ==
    IF NumEnd(s, i) = 0 \/ OpNumEnd(s, NumEnd(s, i)) = 0
    THEN 0
    ELSE OpNumEnd(s, NumEnd(s, i))

\* EXPR_RE at i: a number and at least one (operator, number)
ExprEnd(s, i) ==
    IF NumEnd(s, i) = 0 \/ OpNumEnd(s, NumEnd(s, i)) = 0
    THEN 0
    ELSE OpNumsEnd(s, NumEnd(s, i))

\* Regex::find_iter with the match function m, from i: leftmost, non-overlapping
RECURSIVE FindIterExpr(_, _)
FindIterExpr(s, i) ==
    IF i > Len(s) THEN <<>>
    ELSE IF ExprEnd(s, i) = 0 THEN FindIterExpr(s, i + 1)
    ELSE <<SubSeq(s, i, ExprEnd(s, i) - 1)>> \o FindIterExpr(s, ExprEnd(s, i))

RECURSIVE FindIterNum(_, _)
FindIterNum(s, i) ==
    IF i > Len(s) THEN <<>>
    ELSE IF NumEnd(s, i) = 0 THEN FindIterNum(s, i + 1)
    ELSE <<SubSeq(s, i, NumEnd(s, i) - 1)>> \o FindIterNum(s, NumEnd(s, i))

\* the cap of the fallback of extract_claims
MaxBareClaims == 5

Take(seq, n) == SubSeq(seq, 1, IF Len(seq) < n THEN Len(seq) ELSE n)

\* faulty variant: the bare numbers are added to the expression matches
extract_claims_AlsoNumbers(text) ==
    FindIterExpr(text, 1) \o Take(FindIterNum(text, 1), MaxBareClaims)

extract_claims(text) ==
    IF FindIterExpr(text, 1) # <<>>
    THEN FindIterExpr(text, 1)
    ELSE Take(FindIterNum(text, 1), MaxBareClaims)

(***************************************************************************)
(* Orchestrator: the texts it emits (ipc/orchestrator.rs)                  *)
(***************************************************************************)
\* the query limit of process_query
MaxQueryLen == 50000


MsgEmptyQuery ==
    <<"[", "e", "r", "r", "o", "r", "]", " ", "Q", "u", "e", "r", "y", " ", "c", "a", "n", "n",
      "o", "t", " ", "b", "e", " ", "e", "m", "p", "t", "y">>

MsgQueryTooLong ==
    <<"[", "e", "r", "r", "o", "r", "]", " ", "Q", "u", "e", "r", "y", " ", "e", "x", "c", "e",
      "e", "d", "s", " ", "m", "a", "x", "i", "m", "u", "m", " ", "l", "e", "n", "g", "t", "h">>

DetErrorTag ==
    <<"[", "d", "e", "t", "e", "r", "m", "i", "n", "i", "s", "t", "i", "c", " ", "e", "r", "r",
      "o", "r", "]", " ">>

HybridErrorTag ==
    <<"[", "e", "r", "r", "o", "r", "]", " ", "F", "a", "i", "l", "e", "d", " ", "t", "o", " ",
      "p", "r", "o", "c", "e", "s", "s", " ", "h", "y", "b", "r", "i", "d", " ", "q", "u", "e",
      "r", "y", ":", " ">>

ClaimOkPre ==
    <<"U+2713", " ", "C", "l", "a", "i", "m", ":", " ">>

ClaimErrPre ==
    <<"U+2717", " ", "C", "l", "a", "i", "m", ":", " ">>

ClaimArrow ==
    <<" ", "U+2192", " ">>

ClaimErrMid ==
    <<" ", "U+2192", " ", "E", "r", "r", "o", "r", ":", " ">>

HeaderPre ==
    <<"\n", "[", "V", "e", "r", "i", "f", "i", "c", "a", "t", "i", "o", "n", " ", "R", "e",
      "s", "u", "l", "t", "s", ":", " ">>

HeaderMid ==
    <<" ", "v", "e", "r", "i", "f", "i", "e", "d", ",", " ">>

HeaderPost ==
    <<" ", "f", "a", "i", "l", "e", "d", "]", "\n">>

\* one line of the verification report, for a claim and its result
ClaimLine(claim, res) ==
    IF res.ok
    THEN ClaimOkPre \o claim \o ClaimArrow \o res.text \o <<"\n">>
    ELSE ClaimErrPre \o claim \o ClaimErrMid \o res.text \o <<"\n">>

RECURSIVE ClaimLines(_, _, _)
ClaimLines(claims, results, i) ==
    IF i > Len(claims) THEN <<>>
    ELSE ClaimLine(claims[i], results[i]) \o ClaimLines(claims, results, i + 1)

verified_count(results) == Cardinality({i \in 1..Len(results) : results[i].ok})

failed_count(results) == Cardinality({i \in 1..Len(results) : ~results[i].ok})

\* faulty variant: the header is put before the lines without the test
VerificationReport_HeaderAlways(claims, results) ==
    HeaderPre \o UsizeToString(verified_count(results)) \o HeaderMid
        \o UsizeToString(failed_count(results)) \o HeaderPost
        \o ClaimLines(claims, results, 1)

\* faulty variant: each line is put before the lines collected so far
VerificationReport_NewestFirst(claims, results) ==
    LET rev(s) == [i \in 1..Len(s) |-> s[Len(s) + 1 - i]]
    IN  IF verified_count(results) > 0 \/ failed_count(results) > 0
        THEN HeaderPre \o UsizeToString(verified_count(results)) \o HeaderMid
                \o UsizeToString(failed_count(results)) \o HeaderPost
                \o ClaimLines(rev(claims), rev(results), 1)
        ELSE ClaimLines(claims, results, 1)

\* the verification token of handle_hybrid for the claims' results
VerificationReport(claims, results) ==
    IF verified_count(results) > 0 \/ failed_count(results) > 0
    THEN HeaderPre \o UsizeToString(verified_count(results)) \o HeaderMid
            \o UsizeToString(failed_count(results)) \o HeaderPost
            \o ClaimLines(claims, results, 1)
    ELSE ClaimLines(claims, results, 1)

(***************************************************************************)
(* Scene (engine/deterministic_viz.rs): the nodes below the root in the    *)
(* order they were added, each with the place of its parent among them (0  *)
(* for the root, whose id is 0), and the objects map from names to ids.    *)
(***************************************************************************)
\* how many add_node calls are made on a scene
MaxNodes == 3

\* Scene::with_seed: the root alone and an empty objects map
NewScene == [nodes |-> <<>>, objects |-> {}]

(***************************************************************************)
(* The state machine: process_query calls on one Orchestrator, the token   *)
(* producer task each stream_tokens call spawns, the consumer of each      *)
(* returned stream, and one caller of get_stats.                           *)
(***************************************************************************)
\* how many process_query calls are made, and how many get_stats calls
MaxCalls == 2

MaxSnapshots == 2

Calls == 1..MaxCalls

QEmpty ==
    <<>>

QLogical ==
    <<"2", " ", "+", " ", "2">>

QCreative ==
    <<"e", "x", "p", "l", "a", "i", "n", " ", "i", "t">>

QHybrid ==
    <<"w", "h", "y", "1", "+", "1">>

QHybridLong == <<"w", "h", "y", "+", ZRun>>

QLogicalLong == QLogical \o <<ZRun>>

QTooLong == <<"a", ZRun, ZRun, ZRun, ZRun, ZRun>>

\* the queries the callers pass
Queries ==
    {QEmpty, QLogical, QCreative, QHybrid, QHybridLong, QLogicalLong, QTooLong}

PromptHello ==
    <<"H", "e", "l", "l", "o", " ", "w", "o", "r", "l", "d">>

\* more fragments than the channel holds: 18 fragments and the newline
PromptLong ==
    <<"a", " ", "b", " ", "c", " ", "d", " ", "e", " ", "f", " ", "g", " ",
      "h", " ", "i", " ", "j", " ", "k", " ", "l", " ", "m", " ", "n", " ",
      "o", " ", "p", " ", "q", " ", "r">>

\* the prompts a caller passes to stream_tokens itself: the empty one, a
\* blank one, two words, and more fragments than the channel holds
StreamPrompts ==
    {<<>>, <<" ", "\t", " ">>, PromptHello, PromptLong}

\* the queries of the callers that run beside a caller of get_stats: the two
\* rejections and one query of each Intent
StatsQueries ==
    {QEmpty, QTooLong, QLogical, QCreative, QHybrid}

\* an all-whitespace query
QBlank ==
    <<" ", " ">>

\* queries of exactly MaxQueryLen bytes, one of each Intent, and one byte more
QCreativeMax == <<ZRun, ZRun, ZRun, ZRun, ZRun>>

QLogicalMax == <<"2", "+", "2", "=", ZRunShort, ZRun, ZRun, ZRun, ZRun>>

QLogicalOver == QLogicalMax \o <<"z">>

QHybridMax == <<"w", "h", "y", "+", ZRunShort, ZRun, ZRun, ZRun, ZRun>>

QHybridOver == QHybridMax \o <<"z">>

\* MaxQueryLen characters, the first of them three bytes long
QWideMax == <<"U+2713", "z", "z", "z", ZRunShort, ZRun, ZRun, ZRun, ZRun>>

\* a Creative query within MaxQueryLen and over MaxPromptLen
QCreativeLong == <<"p", "o", "e", "m", " ", ZRun>>

\* the queries at the edges of the validation of process_query
ValidationQueries ==
    {QEmpty, QBlank, QCreativeLong, QCreativeMax, QTooLong, QLogicalMax,
     QLogicalOver, QHybridMax, QHybridOver, QWideMax}

\* Hybrid queries whose draft holds two expressions, bare numbers only, and
\* more bare numbers than MaxBareClaims
QHybridTwo ==
    <<"w", "h", "y", " ", "1", "+", "1", " ", "2", "*", "3">>

QHybridBare ==
    <<"c", "a", "t", " ", "7", " ", "8">>

QHybridSix ==
    <<"c", "a", "t", " ", "1", " ", "2", " ", "3", " ", "4", " ", "5", " ", "6">>

\* the queries of a caller that reads the verification report
ReportQueries ==
    {QLogical, QCreative, QHybrid, QHybridTwo, QHybridBare, QHybridSix, QHybridLong}

\* a Hybrid query of more fragments than the channel holds
QHybridMany == PromptLong \o <<" ", "7">>

\* the queries of a caller that drains every stream to its end
DrainQueries == Queries \cup {PromptLong, QHybridMany}

\* every text that enters the system
Inputs ==
    Queries \cup StreamPrompts \cup ValidationQueries \cup DrainQueries
        \cup ReportQueries


VARIABLES
    stats,        \* OrchestratorStats: the four atomic counters
    pc,           \* where each process_query call stands
    query,        \* the argument of each call
    intent,       \* the Intent classify_intent gave, "none" before it ran
    strm,         \* the stream each call returned: a sequence of segments
    chan,         \* the mpsc channel of each stream_tokens call
    prod,         \* the producer task of each stream_tokens call
    cons,         \* the consumer of each returned stream
    output,       \* the tokens each consumer has received, in order
    sent,         \* the tokens each producer has enqueued, in order
    det_calls,    \* the execute_logic calls of each call: argument and result
    infer_calls,  \* the results of the infer calls of each call
    obs,          \* the get_stats caller: its position and its snapshot
    events,       \* per command, the events its task has emitted, in order
    scene         \* a Scene of the engine: its nodes and its objects map

vars ==
    <<stats, pc, query, intent, strm, chan, prod, cons, output, sent,
      det_calls, infer_calls, obs, events, scene>>

\* a stream is a sequence of segments, polled in order: a ReceiverStream over
\* the call's channel, or stream::once(token)
RxSeg == [kind |-> "rx", tok |-> <<>>]

OnceSeg(t) == [kind |-> "once", tok |-> t]

NoChan == [buf |-> <<>>, rx |-> "none", tx |-> "none"]

NoProd == [pc |-> "none", tokens |-> <<>>, idx |-> 0]

ZeroSnapshot ==
    [queries_processed |-> 0, creative_queries |-> 0,
     logical_queries |-> 0, hybrid_queries |-> 0]

Init ==
    /\ stats = ZeroSnapshot
    /\ pc = [p \in Calls |-> "idle"]
    /\ query = [p \in Calls |-> <<>>]
    /\ intent = [p \in Calls |-> "none"]
    /\ strm = [p \in Calls |-> <<>>]
    /\ chan = [p \in Calls |-> NoChan]
    /\ prod = [p \in Calls |-> NoProd]
    /\ cons = [p \in Calls |-> "none"]
    /\ output = [p \in Calls |-> <<>>]
    /\ sent = [p \in Calls |-> <<>>]
    /\ det_calls = [p \in Calls |-> <<>>]
    /\ infer_calls = [p \in Calls |-> <<>>]
    /\ obs = [pc |-> 0, n |-> 0, quiet |-> TRUE, snap |-> ZeroSnapshot,
              prev |-> ZeroSnapshot, calm |-> TRUE, calm_prev |-> TRUE]
    /\ events = [p \in Calls |-> <<>>]
    /\ scene = NewScene

\* faulty variant: store(1) in place of fetch_add(1)
FetchAdd_StoreOne(v) == 1

\* AtomicU64::fetch_add(1, Relaxed): one indivisible read-modify-write.  The
\* counter wraps at 2^64 increments, beyond any number of calls made here.
FetchAdd(v) == v + 1

\* faulty variant: the Hybrid arm adds to the Creative counter
IntentCounter_HybridAsCreative(i) ==
    CASE i = "Creative" -> "creative_queries"
      [] i = "Logical" -> "logical_queries"
      [] i = "Hybrid" -> "creative_queries"

\* the counter process_query adds to for an Intent
IntentCounter(i) ==
    CASE i = "Creative" -> "creative_queries"
      [] i = "Logical" -> "logical_queries"
      [] i = "Hybrid" -> "hybrid_queries"

\* faulty variant: the length check is missing
validate_NoLengthCheck(q) ==
    IF q = <<>> THEN "empty" ELSE "ok"

\* the two checks at the head of process_query
validate(q) ==
    IF q = <<>> THEN "empty"
    ELSE IF StrLen(q) > MaxQueryLen THEN "too_long"
    ELSE "ok"

reject_stream(q) ==
    IF validate(q) = "empty"
    THEN <<OnceSeg(MsgEmptyQuery)>>
    ELSE <<OnceSeg(MsgQueryTooLong)>>

\* The pure functions of the callers' queries, tabulated so that each is
\* computed once: validation, classification, the producer's tokens, the
\* draft of infer and its claims.
Validated == [q \in Inputs |-> validate(q)]

Rejection == [q \in Inputs |-> reject_stream(q)]

Classified == [q \in Inputs |-> classify_intent(q)]

TokensOf == [q \in Inputs |-> FragmentTokens(q)]

DraftOf == [q \in Inputs |-> infer(q)]

ClaimsOf ==
    [q \in Inputs |-> IF infer(q).ok THEN extract_claims(infer(q).text) ELSE <<>>]

\* a counter update as the caller of get_stats is affected by it: from its
\* first get_stats call on, an update ends the calm since the snapshot being
\* taken or last taken began, and since the one before began
Touch(o) ==
    IF o.pc = 0 /\ o.n = 0
    THEN o
    ELSE [o EXCEPT !.calm = FALSE, !.calm_prev = FALSE]

\* the counting section of a call: queries_processed is updated, the counter
\* of its Intent not yet
InCounting(p) == pc[p] = "match"

\* faulty variant: queries_processed is updated before the validation
Begin_CountsRejected(p, q) ==
    /\ pc[p] = "idle"
    /\ \A r \in Calls : r < p => pc[r] # "idle"
    /\ query' = [query EXCEPT ![p] = q]
    /\ stats' = [stats EXCEPT !.queries_processed = FetchAdd(@)]
    /\ obs' = Touch(IF obs.pc \in 1..3 THEN [obs EXCEPT !.quiet = FALSE] ELSE obs)
    /\ IF Validated[q] # "ok"
       THEN /\ strm' = [strm EXCEPT ![p] = Rejection[q]]
            /\ pc' = [pc EXCEPT ![p] = "returned"]
            /\ cons' = [cons EXCEPT ![p] = "polling"]
            /\ UNCHANGED intent
       ELSE /\ intent' = [intent EXCEPT ![p] = Classified[q]]
            /\ pc' = [pc EXCEPT ![p] = "match"]
            /\ UNCHANGED <<strm, cons>>
    /\ UNCHANGED <<chan, prod, output, sent, det_calls, infer_calls>>
    /\ UNCHANGED <<events, scene>>

\* process_query(query) up to the match on the Intent: validation and the
\* rejection it returns, or classification and the fetch_add on
\* queries_processed
Begin(p, q) ==
    /\ pc[p] = "idle"
    /\ \A r \in Calls : r < p => pc[r] # "idle"
    /\ query' = [query EXCEPT ![p] = q]
    /\ IF Validated[q] # "ok"
       THEN /\ strm' = [strm EXCEPT ![p] = Rejection[q]]
            /\ pc' = [pc EXCEPT ![p] = "returned"]
            /\ cons' = [cons EXCEPT ![p] = "polling"]
            /\ UNCHANGED <<stats, intent, obs>>
       ELSE /\ intent' = [intent EXCEPT ![p] = Classified[q]]
            /\ stats' = [stats EXCEPT !.queries_processed = FetchAdd(@)]
            /\ pc' = [pc EXCEPT ![p] = "match"]
            /\ obs' = Touch(IF obs.pc \in 1..3 THEN [obs EXCEPT !.quiet = FALSE] ELSE obs)
            /\ UNCHANGED <<strm, cons>>
    /\ UNCHANGED <<chan, prod, output, sent, det_calls, infer_calls>>
    /\ UNCHANGED <<events, scene>>

\* faulty variant: the match arm adds two
IncIntent_Twice(p) ==
    stats' = [stats EXCEPT ![IntentCounter(intent[p])] = FetchAdd(FetchAdd(@))]

\* faulty variant: the match arm does not count
IncIntent_Skipped(p) == stats' = stats

\* the fetch_add on the counter of the call's Intent, first in its match arm
IncIntent(p) ==
    stats' = [stats EXCEPT ![IntentCounter(intent[p])] = FetchAdd(@)]

\* stream_tokens(prompt): a channel, a spawned producer task, a ReceiverStream
stream_tokens(p, prompt) ==
    /\ chan' = [chan EXCEPT ![p] = [buf |-> <<>>, rx |-> "open", tx |-> "open"]]
    /\ prod' = [prod EXCEPT ![p] =
                    [pc |-> IF TokensOf[prompt] = <<>> THEN "final" ELSE "send",
                     tokens |-> TokensOf[prompt],
                     idx |-> 1]]

\* stream_tokens(query) as the handlers of process_query call it
SpawnProducer(p) == stream_tokens(p, query[p])

\* faulty variant: a token is chained after the forwarded stream
handle_creative_stream_Extra == <<RxSeg, OnceSeg(CompletionToken)>>

\* the stream handle_creative returns
handle_creative_stream == <<RxSeg>>

\* the Creative arm: the counter, then handle_creative
HandleCreative(p) ==
    /\ pc[p] = "match"
    /\ intent[p] = "Creative"
    /\ IncIntent(p)
    /\ SpawnProducer(p)
    /\ strm' = [strm EXCEPT ![p] = handle_creative_stream]
    /\ pc' = [pc EXCEPT ![p] = "returned"]
    /\ cons' = [cons EXCEPT ![p] = "polling"]
    /\ obs' = Touch(obs)
    /\ UNCHANGED <<query, intent, output, sent, det_calls, infer_calls>>
    /\ UNCHANGED <<events, scene>>

\* faulty variant: both arms tag the text as an error
handle_logical_stream_AlwaysTagged(res) ==
    <<OnceSeg(DetErrorTag \o res.text)>>

\* faulty variant: the Err arm emits the bare message
handle_logical_stream_Untagged(res) ==
    <<OnceSeg(res.text)>>

\* the stream handle_logical returns for the result of execute_logic
handle_logical_stream(res) ==
    IF res.ok
    THEN <<OnceSeg(res.text)>>
    ELSE <<OnceSeg(DetErrorTag \o res.text)>>

\* faulty variant: the Logical arm also starts the token stream
HandleLogical_AlsoStreams(p) ==
    /\ pc[p] = "match"
    /\ intent[p] = "Logical"
    /\ IncIntent(p)
    /\ SpawnProducer(p)
    /\ \E answer \in EvalFloatAnswers :
          LET res == execute_logic(query[p], answer)
          IN  /\ det_calls' = [det_calls EXCEPT ![p] =
                                  Append(@, [arg |-> query[p], res |-> res])]
              /\ strm' = [strm EXCEPT ![p] = handle_logical_stream(res)]
    /\ pc' = [pc EXCEPT ![p] = "returned"]
    /\ cons' = [cons EXCEPT ![p] = "polling"]
    /\ obs' = Touch(obs)
    /\ UNCHANGED <<query, intent, output, sent, infer_calls>>
    /\ UNCHANGED <<events, scene>>

\* the Logical arm: the counter, then handle_logical
HandleLogical(p) ==
    /\ pc[p] = "match"
    /\ intent[p] = "Logical"
    /\ IncIntent(p)
    /\ \E answer \in EvalFloatAnswers :
          LET res == execute_logic(query[p], answer)
          IN  /\ det_calls' = [det_calls EXCEPT ![p] =
                                  Append(@, [arg |-> query[p], res |-> res])]
              /\ strm' = [strm EXCEPT ![p] = handle_logical_stream(res)]
    /\ pc' = [pc EXCEPT ![p] = "returned"]
    /\ cons' = [cons EXCEPT ![p] = "polling"]
    /\ obs' = Touch(obs)
    /\ UNCHANGED <<query, intent, chan, prod, output, sent, infer_calls>>
    /\ UNCHANGED <<events, scene>>

\* the Hybrid arm: the counter, then handle_hybrid up to stream_tokens(query)
HybridStream(p) ==
    /\ pc[p] = "match"
    /\ intent[p] = "Hybrid"
    /\ IncIntent(p)
    /\ SpawnProducer(p)
    /\ pc' = [pc EXCEPT ![p] = "hybrid_infer"]
    /\ obs' = Touch(obs)
    /\ UNCHANGED <<query, intent, strm, cons, output, sent, det_calls,
                   infer_calls>>
    /\ UNCHANGED <<events, scene>>

\* the results of the verification loop of handle_hybrid over the claims
VerifyClaims(claims, answers) ==
    [i \in 1..Len(claims) |-> execute_logic(claims[i], answers[i])]

\* faulty variant: the report is chained before the token stream
handle_hybrid_stream_ReportFirst(draft_result, claims, results) ==
    IF draft_result.ok
    THEN <<OnceSeg(VerificationReport(claims, results)), RxSeg>>
    ELSE <<OnceSeg(HybridErrorTag \o draft_result.text)>>

\* faulty variant: the Err arm returns an empty stream
handle_hybrid_stream_ErrSwallowed(draft_result, claims, results) ==
    IF draft_result.ok
    THEN <<RxSeg, OnceSeg(VerificationReport(claims, results))>>
    ELSE <<>>

\* the stream handle_hybrid returns
handle_hybrid_stream(draft_result, claims, results) ==
    IF draft_result.ok
    THEN <<RxSeg, OnceSeg(VerificationReport(claims, results))>>
    ELSE <<OnceSeg(HybridErrorTag \o draft_result.text)>>

\* handle_hybrid from infer(query) to its return; on the Err arm llm_stream
\* is dropped when the function returns
HybridInfer(p) ==
    /\ pc[p] = "hybrid_infer"
    /\ LET draft_result == DraftOf[query[p]]
           claims == ClaimsOf[query[p]]
       IN  /\ infer_calls' = [infer_calls EXCEPT ![p] = Append(@, draft_result)]
           /\ \E answers \in [1..Len(claims) -> EvalFloatAnswers] :
                 LET results == VerifyClaims(claims, answers)
                 IN  /\ det_calls' = [det_calls EXCEPT ![p] =
                            @ \o [i \in 1..Len(claims) |->
                                    [arg |-> claims[i], res |-> results[i]]]]
                     /\ strm' = [strm EXCEPT ![p] =
                            handle_hybrid_stream(draft_result, claims, results)]
           /\ chan' = IF draft_result.ok
                      THEN chan
                      ELSE [chan EXCEPT ![p].rx = "dropped", ![p].buf = <<>>]
    /\ pc' = [pc EXCEPT ![p] = "returned"]
    /\ cons' = [cons EXCEPT ![p] = "polling"]
    /\ UNCHANGED <<stats, query, intent, prod, output, sent, obs>>
    /\ UNCHANGED <<events, scene>>

(***************************************************************************)
(* The producer task of stream_tokens                                      *)
(***************************************************************************)
\* faulty variant: the Err arm has no break, the loop goes on
ProdSend_NoBreak(p) ==
    /\ prod[p].pc = "send"
    /\ IF chan[p].rx = "dropped"
       THEN UNCHANGED <<chan, sent>>
       ELSE /\ Len(chan[p].buf) < ChannelCapacity
            /\ chan' = [chan EXCEPT ![p].buf = Append(@, prod[p].tokens[prod[p].idx])]
            /\ sent' = [sent EXCEPT ![p] = Append(@, prod[p].tokens[prod[p].idx])]
    /\ prod' = [prod EXCEPT ![p].pc = IF prod[p].idx < Len(prod[p].tokens)
                                      THEN "send" ELSE "final",
                            ![p].idx = prod[p].idx + 1]
    /\ UNCHANGED <<stats, pc, query, intent, strm, cons, output, det_calls,
                   infer_calls, obs>>
    /\ UNCHANGED <<events, scene>>

\* faulty variant: an unbounded channel, send never suspends
ProdSend_NoBackpressure(p) ==
    /\ prod[p].pc = "send"
    /\ IF chan[p].rx = "dropped"
       THEN /\ prod' = [prod EXCEPT ![p].pc = "final"]
            /\ UNCHANGED <<chan, sent>>
       ELSE /\ chan' = [chan EXCEPT ![p].buf = Append(@, prod[p].tokens[prod[p].idx])]
            /\ sent' = [sent EXCEPT ![p] = Append(@, prod[p].tokens[prod[p].idx])]
            /\ prod' = [prod EXCEPT ![p].pc = IF prod[p].idx < Len(prod[p].tokens)
                                              THEN "send" ELSE "final",
                                    ![p].idx = prod[p].idx + 1]
    /\ UNCHANGED <<stats, pc, query, intent, strm, cons, output, det_calls,
                   infer_calls, obs>>
    /\ UNCHANGED <<events, scene>>

\* one turn of the loop: tx.send(token_with_space).await, which is Err once
\* the receiver is gone (break) and suspends while the channel is full, then
\* the 80 ms sleep
ProdSend(p) ==
    /\ prod[p].pc = "send"
    /\ IF chan[p].rx = "dropped"
       THEN /\ prod' = [prod EXCEPT ![p].pc = "final"]
            /\ UNCHANGED <<chan, sent>>
       ELSE /\ Len(chan[p].buf) < ChannelCapacity
            /\ chan' = [chan EXCEPT ![p].buf = Append(@, prod[p].tokens[prod[p].idx])]
            /\ sent' = [sent EXCEPT ![p] = Append(@, prod[p].tokens[prod[p].idx])]
            /\ prod' = [prod EXCEPT ![p].pc = IF prod[p].idx < Len(prod[p].tokens)
                                              THEN "send" ELSE "final",
                                    ![p].idx = prod[p].idx + 1]
    /\ UNCHANGED <<stats, pc, query, intent, strm, cons, output, det_calls,
                   infer_calls, obs>>
    /\ UNCHANGED <<events, scene>>

\* faulty variant: the task ends without the completion token
ProdFinal_NoSentinel(p) ==
    /\ prod[p].pc = "final"
    /\ chan' = [chan EXCEPT ![p].tx = "dropped"]
    /\ prod' = [prod EXCEPT ![p].pc = "done"]
    /\ UNCHANGED <<stats, pc, query, intent, strm, cons, output, sent, det_calls,
                   infer_calls, obs>>
    /\ UNCHANGED <<events, scene>>

\* faulty variant: the sender outlives the task, the channel never closes
ProdFinal_KeepsSender(p) ==
    /\ prod[p].pc = "final"
    /\ IF chan[p].rx = "dropped"
       THEN UNCHANGED <<chan, sent>>
       ELSE /\ Len(chan[p].buf) < ChannelCapacity
            /\ chan' = [chan EXCEPT ![p].buf = Append(@, CompletionToken)]
            /\ sent' = [sent EXCEPT ![p] = Append(@, CompletionToken)]
    /\ prod' = [prod EXCEPT ![p].pc = "done"]
    /\ UNCHANGED <<stats, pc, query, intent, strm, cons, output, det_calls,
                   infer_calls, obs>>
    /\ UNCHANGED <<events, scene>>

\* tx.send("\n").await after the loop, then the task ends and drops tx
ProdFinal(p) ==
    /\ prod[p].pc = "final"
    /\ IF chan[p].rx = "dropped"
       THEN /\ chan' = [chan EXCEPT ![p].tx = "dropped"]
            /\ UNCHANGED sent
       ELSE /\ Len(chan[p].buf) < ChannelCapacity
            /\ chan' = [chan EXCEPT ![p].buf = Append(@, CompletionToken),
                                    ![p].tx = "dropped"]
            /\ sent' = [sent EXCEPT ![p] = Append(@, CompletionToken)]
    /\ prod' = [prod EXCEPT ![p].pc = "done"]
    /\ UNCHANGED <<stats, pc, query, intent, strm, cons, output, det_calls,
                   infer_calls, obs>>
    /\ UNCHANGED <<events, scene>>

(***************************************************************************)
(* The consumer of a returned stream                                       *)
(***************************************************************************)
\* Receiver::recv gives None: the buffer is empty and the sender is gone
Exhausted(p) == chan[p].buf = <<>> /\ chan[p].tx = "dropped"

\* faulty variant: Chain moves on as soon as its first stream is pending
LiveSegs_ChainOnPending(p) ==
    IF strm[p] # <<>> /\ Head(strm[p]).kind = "rx" /\ chan[p].buf = <<>>
    THEN Tail(strm[p])
    ELSE strm[p]

\* the segments still to poll; Chain moves on when its first stream ends
LiveSegs(p) ==
    IF strm[p] # <<>> /\ Head(strm[p]).kind = "rx" /\ Exhausted(p)
    THEN Tail(strm[p])
    ELSE strm[p]

\* stream.next().await: the next token, or None (the stream is complete);
\* pending while the channel is empty and its sender alive
Poll(p) ==
    /\ cons[p] = "polling"
    /\ IF LiveSegs(p) = <<>>
       THEN /\ cons' = [cons EXCEPT ![p] = "complete"]
            /\ strm' = [strm EXCEPT ![p] = <<>>]
            /\ UNCHANGED <<output, chan>>
       ELSE IF Head(LiveSegs(p)).kind = "once"
       THEN /\ output' = [output EXCEPT ![p] = Append(@, Head(LiveSegs(p)).tok)]
            /\ strm' = [strm EXCEPT ![p] = Tail(LiveSegs(p))]
            /\ UNCHANGED <<cons, chan>>
       ELSE /\ chan[p].buf # <<>>
            /\ output' = [output EXCEPT ![p] = Append(@, Head(chan[p].buf))]
            /\ chan' = [chan EXCEPT ![p].buf = Tail(@)]
            /\ strm' = [strm EXCEPT ![p] = LiveSegs(p)]
            /\ UNCHANGED cons
    /\ UNCHANGED <<stats, pc, query, intent, prod, sent, det_calls, infer_calls, obs>>
    /\ UNCHANGED <<events, scene>>

\* the consumer drops the stream: a ReceiverStream in it closes the channel
Drop(p) ==
    /\ cons[p] = "polling"
    /\ cons' = [cons EXCEPT ![p] = "dropped"]
    /\ strm' = [strm EXCEPT ![p] = <<>>]
    /\ chan' = IF chan[p].rx = "open"
               THEN [chan EXCEPT ![p].rx = "dropped", ![p].buf = <<>>]
               ELSE chan
    /\ UNCHANGED <<stats, pc, query, intent, prod, output, sent, det_calls,
                   infer_calls, obs>>
    /\ UNCHANGED <<events, scene>>

(***************************************************************************)
(* get_stats: four Relaxed loads, one per counter                          *)
(***************************************************************************)
LoadOrder ==
    <<"queries_processed", "creative_queries", "logical_queries", "hybrid_queries">>

\* faulty variant: swap(0) in place of load, the read resets the counter
GetStatsLoad_Swap ==
    /\ obs.n < MaxSnapshots
    /\ obs' = [pc |-> (obs.pc + 1) % 4,
               n |-> IF obs.pc = 3 THEN obs.n + 1 ELSE obs.n,
               quiet |-> IF obs.pc = 0
                         THEN \A p \in Calls : ~InCounting(p)
                         ELSE obs.quiet,
               snap |-> [obs.snap EXCEPT ![LoadOrder[obs.pc + 1]] =
                            stats[LoadOrder[obs.pc + 1]]],
               prev |-> IF obs.pc = 0 THEN obs.snap ELSE obs.prev,
               calm |-> IF obs.pc = 0 THEN TRUE ELSE obs.calm,
               calm_prev |-> IF obs.pc = 0 THEN obs.calm ELSE obs.calm_prev]
    /\ stats' = [stats EXCEPT ![LoadOrder[obs.pc + 1]] = 0]
    /\ UNCHANGED <<pc, query, intent, strm, chan, prod, cons, output, sent,
                   det_calls, infer_calls>>
    /\ UNCHANGED <<events, scene>>

\* one load of get_stats; obs.quiet says that no call has been in its
\* counting section since the snapshot began, obs.prev is the snapshot of
\* the call before, obs.calm and obs.calm_prev say that no counter was
\* updated since this call and since the call before began
GetStatsLoad ==
    /\ obs.n < MaxSnapshots
    /\ obs' = [pc |-> (obs.pc + 1) % 4,
               n |-> IF obs.pc = 3 THEN obs.n + 1 ELSE obs.n,
               quiet |-> IF obs.pc = 0
                         THEN \A p \in Calls : ~InCounting(p)
                         ELSE obs.quiet,
               snap |-> [obs.snap EXCEPT ![LoadOrder[obs.pc + 1]] =
                            stats[LoadOrder[obs.pc + 1]]],
               prev |-> IF obs.pc = 0 THEN obs.snap ELSE obs.prev,
               calm |-> IF obs.pc = 0 THEN TRUE ELSE obs.calm,
               calm_prev |-> IF obs.pc = 0 THEN obs.calm ELSE obs.calm_prev]
    /\ UNCHANGED <<stats, pc, query, intent, strm, chan, prod, cons, output, sent,
                   det_calls, infer_calls>>
    /\ UNCHANGED <<events, scene>>

\* process_query, the producer tasks and the consumers
Next ==
    \/ \E p \in Calls, q \in Queries : Begin(p, q)
    \/ \E p \in Calls : HandleCreative(p)
    \/ \E p \in Calls : HandleLogical(p)
    \/ \E p \in Calls : HybridStream(p)
    \/ \E p \in Calls : HybridInfer(p)
    \/ \E p \in Calls : ProdSend(p)
    \/ \E p \in Calls : ProdFinal(p)
    \/ \E p \in Calls : Poll(p)
    \/ \E p \in Calls : Drop(p)

Spec == Init /\ [][Next]_vars

\* process_query up to its return, with get_stats called from another
\* thread.  The producer tasks and the consumers touch no counter.
StatsNext ==
    \/ \E p \in Calls, q \in StatsQueries : Begin(p, q)
    \/ \E p \in Calls : HandleCreative(p)
    \/ \E p \in Calls : HandleLogical(p)
    \/ \E p \in Calls : HybridStream(p)
    \/ \E p \in Calls : HybridInfer(p)
    \/ GetStatsLoad

StatsSpec == Init /\ [][StatsNext]_vars

\* a caller of the generative module alone: stream_tokens(prompt), and the
\* returned ReceiverStream polled or dropped
CallStreamTokens(prompt) ==
    /\ pc[1] = "idle"
    /\ query' = [query EXCEPT ![1] = prompt]
    /\ stream_tokens(1, prompt)
    /\ strm' = [strm EXCEPT ![1] = <<RxSeg>>]
    /\ pc' = [pc EXCEPT ![1] = "returned"]
    /\ cons' = [cons EXCEPT ![1] = "polling"]
    /\ UNCHANGED <<stats, intent, output, sent, det_calls, infer_calls, obs>>
    /\ UNCHANGED <<events, scene>>

StreamNext ==
    \/ \E prompt \in StreamPrompts : CallStreamTokens(prompt)
    \/ ProdSend(1)
    \/ ProdFinal(1)
    \/ Poll(1)
    \/ Drop(1)

StreamSpec == Init /\ [][StreamNext]_vars

\* the texts a caller of the router alone classifies: up to three pieces, so
\* that keywords occur in either case, whole, split over two pieces
\* ("ma" "th", "how " "does") or not at all, with and without a digit
ClassifyChunks ==
    { <<>>,
      <<"S", "o", "l", "v", "e">>,
      <<"+">>,
      <<"W", "H", "Y">>,
      <<"p", "o", "e", "m">>,
      <<"7">>,
      <<"c", "a", "t">>,
      <<" ">>,
      <<"H", "o", "w", " ">>,
      <<"d", "o", "e", "s">>,
      <<"m", "a">>,
      <<"t", "h">>,
      <<"W", "h", "a", "t", " ", "I", "s">> }

ExCalculate ==
    <<"C", "a", "l", "c", "u", "l", "a", "t", "e", " ", "2", " ", "+", " ", "2">>

ExExplain ==
    <<"E", "x", "p", "l", "a", "i", "n", " ", "q", "u", "a", "n", "t", "u", "m",
      " ", "p", "h", "y", "s", "i", "c", "s">>

ExPercent ==
    <<"W", "h", "a", "t", " ", "i", "s", " ", "1", "0", "%", " ", "o", "f", " ",
      "5", "0", "0", "?">>

ClassifyTexts ==
    {a \o b \o c : a \in ClassifyChunks, b \in ClassifyChunks, c \in ClassifyChunks}
        \cup {ExCalculate, ExExplain, ExPercent}

\* router.classify_intent(text), as the tests and the doc examples call it
Classify(text) ==
    /\ pc[1] = "idle"
    /\ query' = [query EXCEPT ![1] = text]
    /\ intent' = [intent EXCEPT ![1] = classify_intent(text)]
    /\ pc' = [pc EXCEPT ![1] = "classified"]
    /\ UNCHANGED <<stats, strm, chan, prod, cons, output, sent, det_calls,
                   infer_calls, obs>>
    /\ UNCHANGED <<events, scene>>

ClassifyNext == \E text \in ClassifyTexts : Classify(text)

ClassifySpec == Init /\ [][ClassifyNext]_vars

\* one process_query call on a query at an edge of the validation, with its
\* producer task and its consumer
ValidationNext ==
    \/ \E q \in ValidationQueries : Begin(1, q)
    \/ HandleCreative(1)
    \/ HandleLogical(1)
    \/ HybridStream(1)
    \/ HybridInfer(1)
    \/ ProdSend(1)
    \/ ProdFinal(1)
    \/ Poll(1)
    \/ Drop(1)

ValidationSpec == Init /\ [][ValidationNext]_vars

\* concurrent process_query calls that repeat each other's query, a rejection
\* or one query of each Intent, each with its producer task and a consumer
\* that polls or drops
TwinNext ==
    \/ \E p \in Calls, q \in {QEmpty, QLogical, QCreative, QHybrid} : Begin(p, q)
    \/ \E p \in Calls : HandleCreative(p)
    \/ \E p \in Calls : HandleLogical(p)
    \/ \E p \in Calls : HybridStream(p)
    \/ \E p \in Calls : HybridInfer(p)
    \/ \E p \in Calls : ProdSend(p)
    \/ \E p \in Calls : ProdFinal(p)
    \/ \E p \in Calls : Poll(p)
    \/ \E p \in Calls : Drop(p)

TwinSpec == Init /\ [][TwinNext]_vars

\* the texts a caller of the deterministic module alone evaluates: up to three
\* pieces of digits, operators, blanks, letters, a character sanitize_query
\* removes, logic keywords and a run of max_query_length letters
DetTexts ==
    LET DetChunks ==
            { <<>>,
              <<"2">>,
              <<"+">>,
              <<" ">>,
              <<"x">>,
              <<"@">>,
              <<"(">>,
              KwAncestor,
              <<"r", "u", "l", "e">>,
              <<ZRun>> }
    IN  {a \o b \o c : a \in DetChunks, b \in DetChunks, c \in DetChunks}

\* det_module.execute_logic(text), as the tests call it; answer is what
\* eval_float returns if the call reaches it
CallExecuteLogic(text, answer) ==
    /\ pc[1] = "idle"
    /\ query' = [query EXCEPT ![1] = text]
    /\ det_calls' = [det_calls EXCEPT ![1] =
                        <<[arg |-> text, res |-> execute_logic(text, answer),
                           answer |-> answer]>>]
    /\ pc' = [pc EXCEPT ![1] = "evaluated"]
    /\ UNCHANGED <<stats, intent, strm, chan, prod, cons, output, sent,
                   infer_calls, obs>>
    /\ UNCHANGED <<events, scene>>

DetNext ==
    \E text \in DetTexts, answer \in EvalFloatAnswers : CallExecuteLogic(text, answer)

DetSpec == Init /\ [][DetNext]_vars

\* one process_query call of a caller that reads the verification report,
\* with its producer task and its consumer
ReportNext ==
    \/ \E q \in ReportQueries : Begin(1, q)
    \/ HandleCreative(1)
    \/ HandleLogical(1)
    \/ HybridStream(1)
    \/ HybridInfer(1)
    \/ ProdSend(1)
    \/ ProdFinal(1)
    \/ Poll(1)
    \/ Drop(1)

ReportSpec == Init /\ [][ReportNext]_vars

\* a text with a chain of two operators
ExChain ==
    <<"2", "5", " ", "*", " ", "4", " ", "+", " ", "1", "0", "0", " ", "i", "s", " ",
      "t", "h", "e", " ", "r", "e", "s", "u", "l", "t">>

\* the drafts the verification block of handle_hybrid works on: what infer
\* returns for the Hybrid queries, texts of up to three pieces of
\* expressions, numbers, operators, blanks and letters, some with no digit,
\* a chain of two operators and a text with one bare number
DraftTexts ==
    LET DraftChunks ==
            { <<>>,
              <<"1", "+", "1">>,
              <<" ">>,
              <<"7">>,
              <<"x">>,
              <<"2", ".", "5">>,
              <<"*">> }
    IN  {a \o b \o c : a \in DraftChunks, b \in DraftChunks, c \in DraftChunks}
        \cup {infer(q).text : q \in {QHybrid, QHybridTwo, QHybridBare, QHybridSix}}
        \cup {ExChain,
              <<"t", "h", "e", " ", "y", "e", "a", "r", " ", "1", "9", "9", "9">>}

\* the Ok arm of handle_hybrid for the draft infer returned: the claims, one
\* execute_logic call per claim, the report chained after the token stream
VerifyDraft(draft_full) ==
    /\ pc[1] = "idle"
    /\ infer_calls' = [infer_calls EXCEPT ![1] = <<Ok(draft_full)>>]
    /\ LET claims == extract_claims(draft_full)
       IN  \E answers \in [1..Len(claims) -> EvalFloatAnswers] :
              LET results == VerifyClaims(claims, answers)
              IN  /\ det_calls' = [det_calls EXCEPT ![1] =
                         [i \in 1..Len(claims) |->
                             [arg |-> claims[i], res |-> results[i]]]]
                  /\ strm' = [strm EXCEPT ![1] =
                         handle_hybrid_stream(Ok(draft_full), claims, results)]
    /\ pc' = [pc EXCEPT ![1] = "verified"]
    /\ UNCHANGED <<stats, query, intent, chan, prod, cons, output, sent, obs>>
    /\ UNCHANGED <<events, scene>>

VerifyNext == \E draft_full \in DraftTexts : VerifyDraft(draft_full)

VerifySpec == Init /\ [][VerifyNext]_vars

\* Scene::add_node(name, parent_id, object_type): the id is objects.len() + 1;
\* the node is pushed under the root for parent_id 0, else under the first
\* node with that id in the depth-first walk of add_node_recursive, and if
\* there is none the call returns Err before anything is inserted;
\* objects.insert(name, new_id) replaces the entry of a name already there
add_node(name, parent_id, object_type) ==
    LET new_id == Cardinality(scene.objects) + 1
        nodes == scene.nodes
        RECURSIVE Walk(_, _)
        Walk(n, k) ==
            IF k > Len(nodes) THEN <<>>
            ELSE IF nodes[k].par = n
                 THEN <<k>> \o Walk(k, k + 1) \o Walk(n, k + 1)
                 ELSE Walk(n, k + 1)
        order == Walk(0, 1)
        found == {j \in 1..Len(order) : nodes[order[j]].id = parent_id}
        par == IF parent_id = 0 THEN 0
               ELSE IF found = {} THEN -1
               ELSE order[CHOOSE j \in found : \A i \in found : j <= i]
    IN  /\ Len(scene.nodes) < MaxNodes
        /\ scene' =
              IF par = -1 THEN scene
              ELSE [nodes |-> Append(nodes, [id |-> new_id, name |-> name,
                                             object_type |-> object_type,
                                             par |-> par]),
                    objects |-> {e \in scene.objects : e[1] # name}
                                    \cup {<<name, new_id>>}]
        /\ UNCHANGED <<stats, pc, query, intent, strm, chan, prod, cons, output,
                       sent, det_calls, infer_calls, obs, events>>

\* a caller that builds a scene: add_node with one of two names, under the
\* root, under the id of a node or under an id no node has
SceneNext ==
    \E name \in {"cube", "lamp"}, parent_id \in 0..(MaxNodes + 1),
       object_type \in {"Empty", "Mesh"} :
        add_node(name, parent_id, object_type)

SceneSpec == Init /\ [][SceneNext]_vars

\* the process_query command up to the match of Orchestrator::process_query:
\* orchestrator.lock().await succeeds when no other command is inside
\* process_query, the guard being held until the command returns
BridgeBegin(p, q) ==
    /\ \A r \in Calls : pc[r] \notin {"match", "hybrid_infer"}
    /\ Begin(p, q)

\* faulty variant: query-complete is emitted inside the loop
EmitterStep_CompleteInLoop(p) ==
    /\ cons[p] = "polling"
    /\ IF LiveSegs(p) = <<>>
       THEN /\ cons' = [cons EXCEPT ![p] = "complete"]
            /\ strm' = [strm EXCEPT ![p] = <<>>]
            /\ events' = [events EXCEPT ![p] = Append(@, [name |-> "query-complete", completed |-> TRUE])]
            /\ UNCHANGED <<output, chan>>
       ELSE IF Head(LiveSegs(p)).kind = "once"
       THEN /\ output' = [output EXCEPT ![p] = Append(@, Head(LiveSegs(p)).tok)]
            /\ strm' = [strm EXCEPT ![p] = Tail(LiveSegs(p))]
            /\ events' = [events EXCEPT ![p] =
                   @ \o <<[name |-> "query-token", token |-> Head(LiveSegs(p)).tok], [name |-> "query-complete", completed |-> TRUE]>>]
            /\ UNCHANGED <<cons, chan>>
       ELSE /\ chan[p].buf # <<>>
            /\ output' = [output EXCEPT ![p] = Append(@, Head(chan[p].buf))]
            /\ chan' = [chan EXCEPT ![p].buf = Tail(@)]
            /\ strm' = [strm EXCEPT ![p] = LiveSegs(p)]
            /\ events' = [events EXCEPT ![p] =
                   @ \o <<[name |-> "query-token", token |-> Head(chan[p].buf)], [name |-> "query-complete", completed |-> TRUE]>>]
            /\ UNCHANGED cons
    /\ UNCHANGED <<stats, pc, query, intent, prod, sent, det_calls, infer_calls,
                   obs, scene>>

\* one turn of the task the command spawns: stream.next().await and the emit
\* of query-token for Some(token), for None the end of the loop and the emit
\* of query-complete; the result of emit is ignored
EmitterStep(p) ==
    /\ cons[p] = "polling"
    /\ IF LiveSegs(p) = <<>>
       THEN /\ cons' = [cons EXCEPT ![p] = "complete"]
            /\ strm' = [strm EXCEPT ![p] = <<>>]
            /\ events' = [events EXCEPT ![p] = Append(@, [name |-> "query-complete", completed |-> TRUE])]
            /\ UNCHANGED <<output, chan>>
       ELSE IF Head(LiveSegs(p)).kind = "once"
       THEN /\ output' = [output EXCEPT ![p] = Append(@, Head(LiveSegs(p)).tok)]
            /\ strm' = [strm EXCEPT ![p] = Tail(LiveSegs(p))]
            /\ events' = [events EXCEPT ![p] = Append(@, [name |-> "query-token", token |-> Head(LiveSegs(p)).tok])]
            /\ UNCHANGED <<cons, chan>>
       ELSE /\ chan[p].buf # <<>>
            /\ output' = [output EXCEPT ![p] = Append(@, Head(chan[p].buf))]
            /\ chan' = [chan EXCEPT ![p].buf = Tail(@)]
            /\ strm' = [strm EXCEPT ![p] = LiveSegs(p)]
            /\ events' = [events EXCEPT ![p] = Append(@, [name |-> "query-token", token |-> Head(chan[p].buf)])]
            /\ UNCHANGED cons
    /\ UNCHANGED <<stats, pc, query, intent, prod, sent, det_calls, infer_calls,
                   obs, scene>>

\* process_query commands of the frontend, a rejection or one query of each
\* Intent, with the producer tasks and the emitting tasks they spawn
BridgeNext ==
    \/ \E p \in Calls, q \in {QEmpty, QLogical, QCreative, QHybrid} : BridgeBegin(p, q)
    \/ \E p \in Calls : HandleCreative(p)
    \/ \E p \in Calls : HandleLogical(p)
    \/ \E p \in Calls : HybridStream(p)
    \/ \E p \in Calls : HybridInfer(p)
    \/ \E p \in Calls : ProdSend(p)
    \/ \E p \in Calls : ProdFinal(p)
    \/ \E p \in Calls : EmitterStep(p)

\* one process_query call whose consumer never drops the stream
DrainNext ==
    \/ \E q \in DrainQueries : Begin(1, q)
    \/ HandleCreative(1)
    \/ HandleLogical(1)
    \/ HybridStream(1)
    \/ HybridInfer(1)
    \/ ProdSend(1)
    \/ ProdFinal(1)
    \/ Poll(1)

\* the future of process_query is polled to its return
HandlerStep(p) ==
    HandleCreative(p) \/ HandleLogical(p) \/ HybridStream(p) \/ HybridInfer(p)

\* a spawned producer task is scheduled until it ends, and its sleep ends
ProducerStep(p) == ProdSend(p) \/ ProdFinal(p)

FairSpec == Spec /\ \A p \in Calls : WF_vars(ProducerStep(p))

\* the runtime polls every command to its return and every spawned task
\* until it ends
BridgeSpec ==
    /\ Init /\ [][BridgeNext]_vars
    /\ \A p \in Calls :
          WF_vars(HandlerStep(p)) /\ WF_vars(ProducerStep(p)) /\ WF_vars(EmitterStep(p))

\* a fair scheduler and a consumer that keeps polling
DrainSpec ==
    /\ Init /\ [][DrainNext]_vars
    /\ WF_vars(HandlerStep(1))
    /\ WF_vars(ProducerStep(1))
    /\ WF_vars(Poll(1))

(***************************************************************************)
(* Properties                                                              *)
(***************************************************************************)
\* the tokens of the segments a stream still holds, in order
SegTokens(p) == [i \in 1..Len(strm[p]) |-> strm[p][i].tok]

\* a call's stream holds exactly the token t: nothing else is ever received,
\* no poll of it is ever pending, and draining it ends after t
OneTokenStream(p, t) ==
    /\ \A i \in 1..Len(strm[p]) : strm[p][i].kind = "once"
    /\ cons[p] = "polling" => output[p] \o SegTokens(p) = <<t>>
    /\ cons[p] = "complete" => output[p] = <<t>>
    /\ cons[p] = "dropped" => IsPrefix(output[p], <<t>>)

\* what the producer of a prompt sends to a consumer that drains it
GenTokens(q) == TokensOf[q] \o <<CompletionToken>>

InferOk(p) == infer_calls[p] # <<>> /\ infer_calls[p][1].ok

InferFailed(p) == infer_calls[p] # <<>> /\ ~infer_calls[p][1].ok

\* the verification report over the execute_logic calls a call has made
ReportOf(p) ==
    VerificationReport([i \in 1..Len(det_calls[p]) |-> det_calls[p][i].arg],
                       [i \in 1..Len(det_calls[p]) |-> det_calls[p][i].res])

\* C1: for a Hybrid query whose infer call succeeds, what the consumer has
\* received is at every moment a prefix of: the producer's tokens in order,
\* the newline last, then the one verification-report token; a drained
\* stream is exactly that sequence.
C1_HybridReportAfterStream ==
    \A p \in Calls :
        (intent[p] = "Hybrid" /\ pc[p] = "returned" /\ InferOk(p)) =>
            /\ IsPrefix(output[p], GenTokens(query[p]) \o <<ReportOf(p)>>)
            /\ cons[p] = "complete" =>
                  output[p] = GenTokens(query[p]) \o <<ReportOf(p)>>

C1_Witness ==
    \E p \in Calls :
        /\ intent[p] = "Hybrid" /\ InferOk(p) /\ cons[p] = "complete"
        /\ Len(output[p]) = Len(TokensOf[query[p]]) + 2
        /\ Len(TokensOf[query[p]]) > 0

\* C2: for a Hybrid query whose infer call fails, a drained stream is the
\* producer's tokens in order followed by one error-tagged token.
C2_HybridInferErrKeepsStream ==
    \A p \in Calls :
        (intent[p] = "Hybrid" /\ pc[p] = "returned" /\ InferFailed(p)
            /\ cons[p] = "complete") =>
            output[p] = GenTokens(query[p])
                            \o <<HybridErrorTag \o infer_calls[p][1].text>>

\* C3: a call whose query is empty or longer than the limit returns a stream
\* of exactly one error token; the classifier has not run and neither
\* execute_logic, infer nor stream_tokens was called.
C3_RejectedOneErrorToken ==
    \A p \in Calls :
        (pc[p] # "idle" /\ (query[p] = <<>> \/ StrLen(query[p]) > MaxQueryLen)) =>
            /\ pc[p] = "returned"
            /\ intent[p] = "none"
            /\ det_calls[p] = <<>> /\ infer_calls[p] = <<>>
            /\ chan[p] = NoChan /\ prod[p] = NoProd
            /\ OneTokenStream(p, IF query[p] = <<>> THEN MsgEmptyQuery
                                                   ELSE MsgQueryTooLong)

C3_Witness ==
    /\ \E p \in Calls : query[p] = <<>> /\ cons[p] = "complete"
    /\ \E p \in Calls : StrLen(query[p]) > MaxQueryLen /\ cons[p] = "complete"

\* C4: a returned Logical call has made exactly one execute_logic call, with
\* its query, and when that call succeeded its stream is exactly one token,
\* the result text.
C4_LogicalOneCallOneToken ==
    \A p \in Calls :
        (intent[p] = "Logical" /\ pc[p] = "returned") =>
            /\ Len(det_calls[p]) = 1
            /\ det_calls[p][1].arg = query[p]
            /\ infer_calls[p] = <<>> /\ chan[p] = NoChan
            /\ det_calls[p][1].res.ok =>
                  OneTokenStream(p, det_calls[p][1].res.text)

C4_Witness ==
    \E p \in Calls :
        /\ intent[p] = "Logical" /\ cons[p] = "complete"
        /\ det_calls[p][1].res.ok

\* C5: when the execute_logic call of a Logical call failed, its stream is
\* exactly one token, the error tag followed by the error's message; the
\* call returns a stream like any other and the stream ends.
C5_LogicalErrorToken ==
    \A p \in Calls :
        (intent[p] = "Logical" /\ pc[p] = "returned" /\ det_calls[p] # <<>>
            /\ ~det_calls[p][1].res.ok) =>
            OneTokenStream(p, DetErrorTag \o det_calls[p][1].res.text)

C5_Witness ==
    /\ \E p \in Calls :
          /\ intent[p] = "Logical" /\ cons[p] = "complete"
          /\ det_calls[p][1].res = Err(MsgMathFailed \o EvalErrText)
    /\ \E p \in Calls :
          /\ intent[p] = "Logical" /\ cons[p] = "complete"
          /\ StrLen(query[p]) > max_query_length

\* C6: for a Creative call, what the consumer has received is at every
\* moment a prefix of what the producer has sent; the stream ends exactly when
\* the channel is closed and empty, and a drained stream is the producer's
\* whole sequence: the fragments in order, then the newline.
C6_CreativeForwardsUnchanged ==
    \A p \in Calls :
        (intent[p] = "Creative" /\ pc[p] = "returned") =>
            /\ IsPrefix(output[p], sent[p])
            /\ cons[p] = "polling" => strm[p] = <<RxSeg>>
            /\ cons[p] = "polling" => output[p] \o chan[p].buf = sent[p]
            /\ cons[p] = "complete" =>
                  /\ Exhausted(p) /\ prod[p].pc = "done"
                  /\ output[p] = sent[p]
                  /\ output[p] = GenTokens(query[p])

C6_Witness ==
    \E p \in Calls :
        /\ intent[p] = "Creative" /\ cons[p] = "complete"
        /\ Len(output[p]) = 3

\* the calls that passed validation and were classified with Intent i
AcceptedAs(i) == {p \in Calls : intent[p] = i}

Accepted == {p \in Calls : intent[p] # "none"}

\* no call is between its entry and its return
Quiescent == \A p \in Calls : pc[p] \in {"idle", "returned"}

\* the counters as the number of calls: total, Creative, Logical, Hybrid
CountersAre(t, c, l, h) ==
    /\ stats.queries_processed = t
    /\ stats.creative_queries = c
    /\ stats.logical_queries = l
    /\ stats.hybrid_queries = h

\* C7: whenever no call is running, queries_processed is the number of calls
\* that passed validation and each per-intent counter the number of those of
\* its Intent; a call that passes validation adds exactly 1 to the total and
\* nothing else, its match arm adds exactly 1 to the counter of its Intent
\* and nothing else, and no other step changes a counter.
C7_CountersMatchAcceptedCalls ==
    /\ [](Quiescent =>
            CountersAre(Cardinality(Accepted), Cardinality(AcceptedAs("Creative")),
                        Cardinality(AcceptedAs("Logical")),
                        Cardinality(AcceptedAs("Hybrid"))))
    /\ [][/\ \A c \in DOMAIN stats : stats'[c] >= stats[c]
          /\ \A p \in Calls :
                /\ (pc[p] = "idle" /\ pc'[p] = "match") =>
                      stats' = [stats EXCEPT !.queries_processed = @ + 1]
                /\ (pc[p] = "idle" /\ pc'[p] = "returned") => stats' = stats
                /\ (pc[p] = "match" /\ pc'[p] # "match" /\ intent[p] = "Creative") =>
                      stats' = [stats EXCEPT !.creative_queries = @ + 1]
                /\ (pc[p] = "match" /\ pc'[p] # "match" /\ intent[p] = "Logical") =>
                      stats' = [stats EXCEPT !.logical_queries = @ + 1]
                /\ (pc[p] = "match" /\ pc'[p] # "match" /\ intent[p] = "Hybrid") =>
                      stats' = [stats EXCEPT !.hybrid_queries = @ + 1]
          /\ pc' = pc => stats' = stats]_vars

C7_Witness ==
    /\ Quiescent
    /\ CountersAre(2, 0, 1, 1)

\* the calls that are past the counter update of their match arm
PastMatch == {p \in Calls : pc[p] \in {"hybrid_infer", "returned"}}

\* C8: in every state, whatever the interleaving of the calls,
\* queries_processed is the number of calls that have passed classification
\* and each per-intent counter is the number of calls of that Intent that are
\* past their match arm's update: no update is lost.
C8_NoLostUpdate ==
    CountersAre(Cardinality(Accepted),
                Cardinality(AcceptedAs("Creative") \cap PastMatch),
                Cardinality(AcceptedAs("Logical") \cap PastMatch),
                Cardinality(AcceptedAs("Hybrid") \cap PastMatch))

C8_Witness ==
    /\ \A p \in Calls : pc[p] = "match"
    /\ stats.queries_processed = MaxCalls

\* a get_stats call has returned its snapshot
SnapshotTaken == obs.n > 0 /\ obs.pc = 0

SnapshotConsistent ==
    obs.snap.queries_processed =
        obs.snap.creative_queries + obs.snap.logical_queries + obs.snap.hybrid_queries

\* C9 as stated: every snapshot of get_stats satisfies
\* queries_processed = creative_queries + logical_queries + hybrid_queries.
C9_EverySnapshotConsistent == SnapshotTaken => SnapshotConsistent

\* C9 amended: a snapshot taken while no call is between its update of
\* queries_processed and the update of its Intent's counter satisfies
\* queries_processed = creative_queries + logical_queries + hybrid_queries.
C9_QuietSnapshotConsistent == (SnapshotTaken /\ obs.quiet) => SnapshotConsistent

C9_Witness ==
    /\ SnapshotTaken /\ obs.quiet
    /\ obs.snap.queries_processed > 0
    /\ \E p \in Calls : pc[p] = "hybrid_infer"

\* C10: once the receiver of a channel is dropped nothing more is enqueued,
\* the producer's next loop turn leaves the loop, and under fair scheduling
\* of the producer task the task ends.
C10_ProducerStopsAfterDrop ==
    /\ [][\A p \in Calls :
            chan[p].rx = "dropped" =>
                /\ sent'[p] = sent[p]
                /\ chan'[p].buf = <<>>
                /\ (prod[p].pc = "send" /\ prod'[p] # prod[p]) => prod'[p].pc = "final"]_vars
    /\ \A p \in Calls : (chan[p].rx = "dropped") ~> (prod[p].pc = "done")

C10_Witness ==
    /\ \E p \in Calls :
          /\ intent[p] = "Creative" /\ cons[p] = "dropped" /\ Len(output[p]) = 1
          /\ Len(sent[p]) < Len(GenTokens(query[p]))
          /\ prod[p].pc = "done"
    /\ \E p \in Calls :
          /\ intent[p] = "Hybrid" /\ InferFailed(p) /\ chan[p].rx = "dropped"
          /\ prod[p].pc = "done"

\* C11: the channel between a producer and its consumer never holds more than
\* ChannelCapacity tokens; while it is full the producer neither enqueues nor
\* moves on, and the only change to the channel is the consumer taking the
\* oldest token (or dropping the stream); as long as the consumer polls, the
\* tokens received followed by the tokens buffered are the tokens sent, so a
\* drained stream is the sent sequence, each token once.
C11_BoundedQueueBackpressure ==
    /\ [](\A p \in Calls :
            /\ Len(chan[p].buf) <= ChannelCapacity
            /\ (cons[p] = "polling" /\ chan[p].rx = "open") =>
                  output[p] \o chan[p].buf = sent[p]
            /\ (cons[p] = "complete" /\ chan[p].rx = "open") => output[p] = sent[p])
    /\ [][\A p \in Calls :
            (Len(chan[p].buf) = ChannelCapacity /\ chan[p].rx = "open") =>
                /\ sent'[p] = sent[p]
                /\ prod'[p] = prod[p]
                /\ chan'[p] # chan[p] =>
                      \/ chan'[p].rx = "dropped"
                      \/ /\ chan'[p].buf = Tail(chan[p].buf)
                         /\ output'[p] = Append(output[p], Head(chan[p].buf))]_vars

C11_Witness ==
    /\ Len(chan[1].buf) = ChannelCapacity
    /\ prod[1].pc = "send" /\ prod[1].idx <= Len(prod[1].tokens)
    /\ cons[1] = "polling" /\ chan[1].rx = "open"

\* C12: what the consumer of a stream_tokens sequence has received is at every
\* moment a prefix of the prompt's fragments in order, each followed by a
\* space, then the newline; a drained sequence is all of it, so the newline
\* comes once, last ("Hello world" gives "Hello ", "world ", newline).
C12_FragmentsInOrderThenSentinel ==
    \A p \in Calls :
        cons[p] # "none" =>
            /\ IsPrefix(output[p], FragmentTokens(query[p]) \o <<CompletionToken>>)
            /\ \A i \in 1..Len(output[p]) :
                  output[p][i] = CompletionToken =>
                      i = Len(SplitWhitespace(query[p])) + 1
            /\ cons[p] = "complete" =>
                  /\ output[p] = FragmentTokens(query[p]) \o <<CompletionToken>>
                  /\ output[p][Len(output[p])] = CompletionToken
                  /\ query[p] = PromptHello =>
                        output[p] = << <<"H", "e", "l", "l", "o", " ">>,
                                       <<"w", "o", "r", "l", "d", " ">>,
                                       <<"\n">> >>

C12_Witness ==
    /\ cons[1] = "complete" /\ query[1] = PromptLong
    /\ Len(output[1]) = 19
    /\ output[1][1] = <<"a", " ">> /\ output[1][18] = <<"r", " ">>

\* text t occurs in text s at some position
OccursIn(t, s) ==
    \E i \in 1..(Len(s) - Len(t) + 1) : SubSeq(s, i, i + Len(t) - 1) = t

\* the two signals of the decision table, on the case-normalized text
MathSignal(q) == \E kw \in math_keywords : OccursIn(kw, ToLowercase(q))

CreativeSignal(q) == \E kw \in creative_keywords : OccursIn(kw, ToLowercase(q))

HasDigit(q) == \E i \in 1..Len(q) : q[i] \in {"0", "1", "2", "3", "4", "5", "6", "7", "8", "9"}

\* C13: classify_intent gives every text exactly one Intent, the one of the
\* decision table: math signal only Logical, creative signal only Creative,
\* both Hybrid, neither Hybrid when the text holds a digit and Creative
\* otherwise; "Calculate 2 + 2" is Logical, "Explain quantum physics" Creative.
C13_ClassifyFollowsTable ==
    pc[1] = "classified" =>
        LET q == query[1]
            m == MathSignal(q)
            c == CreativeSignal(q)
        IN  /\ intent[1] \in {"Logical", "Creative", "Hybrid"}
            /\ (m /\ ~c) => intent[1] = "Logical"
            /\ (~m /\ c) => intent[1] = "Creative"
            /\ (m /\ c) => intent[1] = "Hybrid"
            /\ (~m /\ ~c /\ HasDigit(q)) => intent[1] = "Hybrid"
            /\ (~m /\ ~c /\ ~HasDigit(q)) => intent[1] = "Creative"
            /\ q = ExCalculate => intent[1] = "Logical"
            /\ q = ExExplain => intent[1] = "Creative"
            /\ q = ExPercent => intent[1] = "Hybrid"

C13_Witness ==
    /\ pc[1] = "classified"
    /\ query[1] = <<"c", "a", "t", "7", " ">>
    /\ ~MathSignal(query[1]) /\ ~CreativeSignal(query[1])
    /\ intent[1] = "Hybrid"

\* the arguments of the execute_logic calls a call has made, in order
DetArgs(p) == [i \in 1..Len(det_calls[p]) |-> det_calls[p][i].arg]

\* C14: a returned call has used the backends of its Intent and no other:
\* Logical one execute_logic call and neither stream_tokens nor infer;
\* Creative stream_tokens and neither infer nor execute_logic; Hybrid
\* stream_tokens, one infer call and one execute_logic call per claim
\* extracted from the draft, in claim order.  Before its match arm a call
\* has used no backend.
C14_DispatchNoCrossOver ==
    \A p \in Calls :
        /\ (pc[p] = "match") =>
              /\ intent[p] \in {"Logical", "Creative", "Hybrid"}
              /\ chan[p] = NoChan /\ infer_calls[p] = <<>> /\ det_calls[p] = <<>>
        /\ (pc[p] = "returned" /\ intent[p] = "Logical") =>
              /\ chan[p] = NoChan /\ prod[p] = NoProd /\ infer_calls[p] = <<>>
              /\ DetArgs(p) = <<query[p]>>
        /\ (pc[p] = "returned" /\ intent[p] = "Creative") =>
              /\ chan[p] # NoChan /\ prod[p].tokens = TokensOf[query[p]]
              /\ infer_calls[p] = <<>> /\ det_calls[p] = <<>>
        /\ (pc[p] = "returned" /\ intent[p] = "Hybrid") =>
              /\ chan[p] # NoChan /\ prod[p].tokens = TokensOf[query[p]]
              /\ Len(infer_calls[p]) = 1
              /\ infer_calls[p][1] = DraftOf[query[p]]
              /\ DetArgs(p) = ClaimsOf[query[p]]

C14_Witness ==
    \E p \in Calls :
        /\ pc[p] = "returned" /\ intent[p] = "Hybrid" /\ InferOk(p)
        /\ Len(det_calls[p]) = 3

\* the number of characters of a text (str::chars().count())
CharCount(s) ==
    LET n[i \in 0..Len(s)] ==
            IF i = 0 THEN 0
            ELSE n[i - 1] + (IF s[i] = ZRun THEN 10000
                             ELSE IF s[i] = ZRunShort THEN 9996
                             ELSE 1)
    IN  n[Len(s)]

\* C15: a call whose query is exactly MaxQueryLen characters long is
\* classified and counted, and once returned has been dispatched to the
\* backends of its Intent; a call whose query is one character longer returns
\* the one length diagnostic, uncounted, unclassified and with no backend
\* called.
C15_LengthBoundary ==
    \A p \in Calls :
        /\ (pc[p] # "idle" /\ CharCount(query[p]) = MaxQueryLen) =>
              /\ intent[p] \in {"Logical", "Creative", "Hybrid"}
              /\ stats.queries_processed = Cardinality(Accepted)
              /\ stats.queries_processed >= 1
              /\ pc[p] = "returned" =>
                    /\ stats.creative_queries = Cardinality(AcceptedAs("Creative"))
                    /\ stats.logical_queries = Cardinality(AcceptedAs("Logical"))
                    /\ stats.hybrid_queries = Cardinality(AcceptedAs("Hybrid"))
                    /\ intent[p] = "Logical" => Len(det_calls[p]) = 1
                    /\ intent[p] # "Logical" => chan[p] # NoChan
                    /\ SegTokens(p) # <<MsgQueryTooLong>>
                    /\ \A i \in 1..Len(output[p]) : output[p][i] # MsgQueryTooLong
        /\ (pc[p] # "idle" /\ CharCount(query[p]) = MaxQueryLen + 1) =>
              /\ pc[p] = "returned"
              /\ intent[p] = "none"
              /\ stats.queries_processed = Cardinality(Accepted)
              /\ det_calls[p] = <<>> /\ infer_calls[p] = <<>>
              /\ chan[p] = NoChan /\ prod[p] = NoProd
              /\ OneTokenStream(p, MsgQueryTooLong)

\* text of whitespace only, the empty text included
AllWhitespace(q) == \A i \in 1..Len(q) : IsWhitespace(q[i])

\* C16: a call whose query is empty or all whitespace is rejected before
\* classification: it returns the one diagnostic of the empty query, with no
\* Intent assigned, not counted, and no backend called.
C16_BlankRejectedBeforeClassify ==
    \A p \in Calls :
        (pc[p] # "idle" /\ AllWhitespace(query[p])) =>
            /\ pc[p] = "returned"
            /\ intent[p] = "none"
            /\ stats.queries_processed = 0
            /\ det_calls[p] = <<>> /\ infer_calls[p] = <<>>
            /\ chan[p] = NoChan /\ prod[p] = NoProd
            /\ OneTokenStream(p, MsgEmptyQuery)

\* C20: a drained Creative call whose prompt the generative module rejects
\* (infer gives Err for it: over MaxPromptLen) has received one token only,
\* which carries the module's error message.
C20_CreativeGenErrorSoleToken ==
    \A p \in Calls :
        (intent[p] = "Creative" /\ cons[p] = "complete" /\ ~DraftOf[query[p]].ok) =>
            /\ Len(output[p]) = 1
            /\ OccursIn(DraftOf[query[p]].text, output[p][1])

\* the last token a consumer has received
LastToken(p) == output[p][Len(output[p])]

\* C17: whatever the backends answered, a drained stream holds at least one
\* token and was polled to its end, and every failure is text in it: the
\* validation diagnostic, the tagged message of a failed execute_logic call
\* of a Logical query, the tagged message of a failed infer call, and in the
\* verification report the message of every failed execute_logic call.
C17_EveryFailureIsAToken ==
    \A p \in Calls :
        /\ pc[p] = "returned" => cons[p] \in {"polling", "complete", "dropped"}
        /\ cons[p] = "complete" =>
              /\ Len(output[p]) >= 1
              /\ strm[p] = <<>>
              /\ intent[p] = "none" =>
                    output[p] \in {<<MsgEmptyQuery>>, <<MsgQueryTooLong>>}
              /\ (intent[p] = "Logical" /\ ~det_calls[p][1].res.ok) =>
                    /\ IsPrefix(DetErrorTag, LastToken(p))
                    /\ OccursIn(det_calls[p][1].res.text, LastToken(p))
              /\ (intent[p] = "Hybrid" /\ InferFailed(p)) =>
                    /\ IsPrefix(HybridErrorTag, LastToken(p))
                    /\ OccursIn(infer_calls[p][1].text, LastToken(p))
              /\ (intent[p] = "Hybrid" /\ InferOk(p)) =>
                    \A i \in 1..Len(det_calls[p]) :
                        ~det_calls[p][i].res.ok =>
                            OccursIn(ClaimErrPre \o det_calls[p][i].arg \o ClaimErrMid
                                        \o det_calls[p][i].res.text,
                                     LastToken(p))

C17_Witness ==
    \E p \in Calls :
        /\ intent[p] = "Hybrid" /\ InferOk(p) /\ cons[p] = "complete"
        /\ \E i \in 1..Len(det_calls[p]) : ~det_calls[p][i].res.ok
        /\ \E i \in 1..Len(det_calls[p]) : det_calls[p][i].res.ok

\* C18: under a fair scheduler and with a consumer that keeps polling, every
\* call that was made returns, its stream ends, and the producer task it
\* spawned, if any, has ended; the tokens received are finitely many, at most
\* the fragments of the query, the newline and one more token.
C18_EveryStreamCompletes ==
    /\ \A p \in Calls :
          (pc[p] # "idle") ~>
              (cons[p] = "complete" /\ prod[p].pc \in {"none", "done"})
    /\ [](\A p \in Calls :
            Len(output[p]) <= Len(TokensOf[query[p]]) + 2)

C18_Witness ==
    /\ query[1] = QHybridMany /\ cons[1] = "complete"
    /\ prod[1].pc = "done"
    /\ Len(output[1]) = 21

\* C19: no load of get_stats changes a counter, and a get_stats call returns
\* the snapshot of the call before it when no process_query call has updated
\* a counter since that earlier call began.
C19_GetStatsReadOnly ==
    /\ [][obs'.pc # obs.pc => stats' = stats]_vars
    /\ []((obs.n >= 2 /\ obs.pc = 0 /\ obs.calm_prev) => obs.snap = obs.prev)

C19_Witness ==
    /\ obs.n = 2 /\ obs.pc = 0 /\ obs.calm_prev
    /\ obs.snap = obs.prev
    /\ obs.snap.queries_processed >= 1
    /\ obs.snap.logical_queries >= 1

\* the responses the backends gave a call: the results of its infer call and
\* of its execute_logic calls, in call order
BackendResponses(p) ==
    <<infer_calls[p], [i \in 1..Len(det_calls[p]) |-> det_calls[p][i].res]>>

\* two calls that ran the same query to its return on the same responses
SameRun(p, r) ==
    /\ pc[p] = "returned" /\ pc[r] = "returned"
    /\ query[p] = query[r]
    /\ BackendResponses(p) = BackendResponses(r)

\* C21: two process_query calls of the same query whose backends gave the
\* same responses yield the same output sequence, however their producer
\* tasks, their consumers and the other call are scheduled: at every moment
\* one consumer's output is a prefix of the other's, and two drained streams
\* gave equal outputs.
C21_SameQuerySameOutput ==
    \A p, r \in Calls :
        SameRun(p, r) =>
            /\ IsPrefix(output[p], output[r]) \/ IsPrefix(output[r], output[p])
            /\ (cons[p] = "complete" /\ cons[r] = "complete") =>
                  output[p] = output[r]

\* two Hybrid calls of one query, both drained to the same three tokens
C21_Witness ==
    /\ MaxCalls >= 2
    /\ SameRun(1, 2)
    /\ intent[1] = "Hybrid"
    /\ cons[1] = "complete" /\ cons[2] = "complete"
    /\ Len(output[1]) = 3 /\ output[2] = output[1]

\* the sanitized text is no arithmetic and no logic query: execute_logic logs
\* "Query type not recognized"
NotRecognized(q) ==
    /\ q # <<>>
    /\ StrLen(q) <= max_query_length
    /\ sanitize_query(q).ok
    /\ ~looks_like_math(sanitize_query(q).text)
    /\ ~looks_like_logic(sanitize_query(q).text)

\* the failure conditions of an execute_logic call: empty or over-length
\* input, nothing left after sanitizing, an expression the evaluator fails
\* on, a text of no supported syntax
FailureCondition(call) ==
    \/ call.arg = <<>>
    \/ StrLen(call.arg) > max_query_length
    \/ ~sanitize_query(call.arg).ok
    \/ CallsEvalFloat(call.arg) /\ ~call.answer.ok
    \/ NotRecognized(call.arg)

\* C22: every execute_logic call returns a value, and under each failure
\* condition - malformed expression, unsupported syntax, evaluator error,
\* empty or over-length input - the value is an error carrying a message,
\* never a successful result.
C22_FailuresAreErrors ==
    \A i \in 1..Len(det_calls[1]) :
        LET call == det_calls[1][i]
        IN  /\ call.res.ok \in BOOLEAN
            /\ FailureCondition(call) => (~call.res.ok /\ call.res.text # <<>>)

\* a Hybrid call has started its token stream and not yet finished infer,
\* claim extraction and the verification calls
Verifying(p) == pc[p] = "hybrid_infer"

\* C23: in Hybrid mode the consumer can receive the first generative token
\* without waiting for infer, claim extraction and the verification calls:
\* whenever the producer has put a token in the channel while the call is
\* still verifying, the consumer's poll of the stream is possible.
C23_FirstTokenBeforeVerification ==
    \A p \in Calls :
        (Verifying(p) /\ chan[p].buf # <<>>) => ENABLED Poll(p)

\* the newline-terminated lines of a text, each without its newline
Lines(s) ==
    LET nl == {i \in 1..Len(s) : s[i] = "\n"}
        pos(k) == CHOOSE i \in nl : Cardinality({j \in nl : j < i}) = k - 1
    IN  [k \in 1..Cardinality(nl) |->
            SubSeq(s, IF k = 1 THEN 1 ELSE pos(k - 1) + 1, pos(k) - 1)]

\* a Hybrid call that returned the chained stream to a consumer holding it
HybridReported(p) ==
    /\ intent[p] = "Hybrid" /\ pc[p] = "returned" /\ InferOk(p)
    /\ cons[p] \in {"polling", "complete"}

\* the tokens of a call's stream that do not come from the channel, received
\* or still to come
OnceTokens(p) ==
    LET gen == Len(sent[p])
        got == IF Len(output[p]) > gen
               THEN SubSeq(output[p], gen + 1, Len(output[p]))
               ELSE <<>>
        idx == {i \in 1..Len(strm[p]) : strm[p][i].kind = "once"}
    IN  IF got # <<>> THEN got
        ELSE IF idx = {} THEN <<>>
        ELSE [k \in 1..(Len(strm[p]) - (CHOOSE i \in idx : \A j \in idx : i <= j) + 1) |->
                  strm[p][(CHOOSE i \in idx : \A j \in idx : i <= j) + k - 1].tok]

\* the outcome lines of a report token: its lines after the blank first line
\* and the header
OutcomeLines(report) ==
    IF Len(Lines(report)) <= 2 THEN <<>>
    ELSE SubSeq(Lines(report), 3, Len(Lines(report)))

\* the outcome line of a claim and the result of its evaluation
OutcomeLine(claim, res) ==
    SubSeq(ClaimLine(claim, res), 1, Len(ClaimLine(claim, res)) - 1)

\* C24: in Hybrid mode every claim extracted from the draft is evaluated by
\* exactly one execute_logic call, in claim order; the report holds exactly
\* one outcome line per claim, in claim order, each showing the result of
\* that claim's call; and the report is one token of the stream, the only
\* one that does not come from the channel.
C24_OneLinePerClaimOneToken ==
    \A p \in Calls :
        HybridReported(p) =>
            LET claims == extract_claims(infer_calls[p][1].text)
            IN  /\ DetArgs(p) = claims
                /\ Len(OnceTokens(p)) = 1
                /\ Len(OutcomeLines(OnceTokens(p)[1])) = Len(claims)
                /\ \A i \in 1..Len(claims) :
                      OutcomeLines(OnceTokens(p)[1])[i] =
                          OutcomeLine(claims[i], det_calls[p][i].res)

\* a drained Hybrid stream whose report has two lines, the first of a claim
\* that failed and the second of one that succeeded
C24_Witness ==
    /\ HybridReported(1) /\ cons[1] = "complete"
    /\ Len(det_calls[1]) = 2
    /\ ~det_calls[1][1].res.ok /\ det_calls[1][2].res.ok
    /\ Len(OutcomeLines(LastToken(1))) = 2
    /\ Len(output[1]) = Len(sent[1]) + 1

\* the header line for v verified and f failed claims, without its newline
HeaderLine(v, f) ==
    SubSeq(HeaderPre, 2, Len(HeaderPre)) \o UsizeToString(v) \o HeaderMid
        \o UsizeToString(f) \o SubSeq(HeaderPost, 1, Len(HeaderPost) - 1)

\* the header lines among the lines of a report
HeaderLines(report) ==
    {k \in 1..Len(Lines(report)) :
        IsPrefix(SubSeq(HeaderPre, 2, Len(HeaderPre)), Lines(report)[k])}

\* the report token of the verification block that has run
ReportToken == strm[1][Len(strm[1])].tok

\* C25: the verification report has its header, one line, exactly when at
\* least one claim was processed; the header shows as verified the number of
\* claims whose evaluation succeeded and as failed the number of the others,
\* so the two counts add up to the number of extracted claims; for zero
\* claims the report token is empty, no header and no line.
C25_HeaderIffClaims ==
    pc[1] = "verified" =>
        LET n == Len(extract_claims(infer_calls[1][1].text))
            v == Cardinality({i \in 1..Len(det_calls[1]) : det_calls[1][i].res.ok})
        IN  /\ Len(det_calls[1]) = n
            /\ n = 0 => ReportToken = <<>>
            /\ n > 0 =>
                  /\ HeaderLines(ReportToken) = {2}
                  /\ Lines(ReportToken)[1] = <<>>
                  /\ Lines(ReportToken)[2] = HeaderLine(v, n - v)

\* a report over two claims, the first verified and the second failed
C25_Witness ==
    /\ pc[1] = "verified"
    /\ Len(det_calls[1]) = 2
    /\ det_calls[1][1].res.ok /\ ~det_calls[1][2].res.ok
    /\ Lines(ReportToken)[2] = HeaderLine(1, 1)

\* the draft the verification block ran on and the claims it verified
DraftFull == infer_calls[1][1].text

Claims == DetArgs(1)

Operators == {"+", "-", "*", "/"}

NumChar(c) == IsAsciiDigit(c) \/ c = "."

\* s[a..b] is a decimal literal: digits, optionally a dot and digits
IsNumberText(s, a, b) ==
    /\ a <= b
    /\ IsAsciiDigit(s[a]) /\ IsAsciiDigit(s[b])
    /\ \A j \in a..b : NumChar(s[j])
    /\ Cardinality({j \in a..b : s[j] = "."}) <= 1

\* s[a..b] is blanks around exactly one operator
IsOperatorText(s, a, b) ==
    /\ a <= b
    /\ \A j \in a..b : IsWhitespace(s[j]) \/ s[j] \in Operators
    /\ Cardinality({j \in a..b : s[j] \in Operators}) = 1

\* s[a..b] is an arithmetic expression: decimal literals separated by
\* operators, at least one operator
IsExprText(s, a, b) ==
    /\ 1 <= a /\ a < b /\ b <= Len(s)
    /\ IsAsciiDigit(s[a]) /\ IsAsciiDigit(s[b])
    /\ \E j \in a..b : s[j] \in Operators
    /\ \A i \in a..b, j \in a..b :
          (/\ i <= j
           /\ i = a \/ NumChar(s[i]) # NumChar(s[i - 1])
           /\ j = b \/ NumChar(s[j]) # NumChar(s[j + 1])
           /\ \A k \in i..j : NumChar(s[k]) = NumChar(s[i]))
          => IF NumChar(s[i]) THEN IsNumberText(s, i, j) ELSE IsOperatorText(s, i, j)

\* some part of the text is an arithmetic expression
HasExpr(s) ==
    \E a \in 1..Len(s), b \in 1..Len(s) :
        /\ a < b
        /\ IsAsciiDigit(s[a]) /\ IsAsciiDigit(s[b])
        /\ IsOperatorText(s, a + 1, b - 1)

\* C26: extract_claims returns bare numbers only when the text holds no
\* arithmetic expression: if some part of the text is an expression, every
\* claim is an expression and none a bare number; otherwise the claims are
\* the decimal literals of the text from left to right, the first
\* MaxBareClaims of them; a text with no digit gives no claim.
C26_BareNumbersOnlyAsFallback ==
    pc[1] = "verified" =>
        /\ HasExpr(DraftFull) =>
              /\ Claims # <<>>
              /\ \A k \in 1..Len(Claims) : IsExprText(Claims[k], 1, Len(Claims[k]))
        /\ ~HasExpr(DraftFull) =>
              LET nums == FindIterNum(DraftFull, 1)
              IN  /\ Len(Claims) = (IF Len(nums) < MaxBareClaims THEN Len(nums)
                                   ELSE MaxBareClaims)
                  /\ \A k \in 1..Len(Claims) :
                        /\ Claims[k] = nums[k]
                        /\ IsNumberText(Claims[k], 1, Len(Claims[k]))
        /\ (\A j \in 1..Len(DraftFull) : ~IsAsciiDigit(DraftFull[j])) => Claims = <<>>

\* a draft with eight bare numbers and no expression: its first five are the
\* claims
C26_Witness ==
    /\ pc[1] = "verified"
    /\ ~HasExpr(DraftFull)
    /\ Len(FindIterNum(DraftFull, 1)) = 8
    /\ Claims = << <<"1">>, <<"2">>, <<"3">>, <<"4">>, <<"5">> >>

\* the first place at or after from where the text c occurs in s, 0 if none
FirstOcc(s, c, from) ==
    LET occ == {i \in from..(Len(s) - Len(c) + 1) : SubSeq(s, i, i + Len(c) - 1) = c}
    IN  IF occ = {} THEN 0 ELSE CHOOSE i \in occ : \A j \in occ : i <= j

\* where the k-th claim lies in the draft: its first occurrence after the
\* claim before it, 0 if there is none
RECURSIVE ClaimStart(_)
ClaimStart(k) ==
    IF k = 1 THEN FirstOcc(DraftFull, Claims[1], 1)
    ELSE IF ClaimStart(k - 1) = 0 THEN 0
    ELSE FirstOcc(DraftFull, Claims[k], ClaimStart(k - 1) + Len(Claims[k - 1]))

ClaimEnd(k) == ClaimStart(k) + Len(Claims[k]) - 1

\* the part of the draft no claim covers that lies before the k-th claim,
\* for k = Len(Claims) + 1 the part after the last claim
GapStart(k) == IF k = 1 THEN 1 ELSE ClaimEnd(k - 1) + 1

GapEnd(k) == IF k > Len(Claims) THEN Len(DraftFull) ELSE ClaimStart(k) - 1

\* C27: for a draft that holds an arithmetic expression the claims are all
\* its maximal expressions, number (operator number)+ with the operators
\* + - * /, in order of appearance and non-overlapping: each claim is an
\* expression and lies in the draft after the claim before it, no claim can
\* be extended to the right or, up to the claim before it, to the left and
\* still be an expression (a chain is one claim), and no part of the draft
\* between, before or after the claims is an expression.
C27_MaximalExpressionsInOrder ==
    (pc[1] = "verified" /\ HasExpr(DraftFull)) =>
        /\ Claims # <<>>
        /\ \A k \in 1..Len(Claims) :
              /\ IsExprText(Claims[k], 1, Len(Claims[k]))
              /\ ClaimStart(k) # 0
              /\ \A a \in GapStart(k)..ClaimStart(k), b \in ClaimEnd(k)..Len(DraftFull) :
                    (a # ClaimStart(k) \/ b # ClaimEnd(k)) =>
                        ~IsExprText(DraftFull, a, b)
        /\ \A k \in 1..(Len(Claims) + 1) :
              \A a \in GapStart(k)..GapEnd(k), b \in GapStart(k)..GapEnd(k) :
                  ~IsExprText(DraftFull, a, b)

\* the chain 25 * 4 + 100 is one claim
C27_Witness ==
    /\ pc[1] = "verified"
    /\ DraftFull = ExChain
    /\ Claims = << <<"2", "5", " ", "*", " ", "4", " ", "+", " ", "1", "0", "0">> >>

\* a query the validation of process_query rejects: empty, or longer than
\* MaxQueryLen bytes
RejectedQuery(q) == q = <<>> \/ StrLen(q) > MaxQueryLen

\* C28: a process_query call rejected by validation leaves the four counters
\* as they are: the step in which the call is rejected changes no counter,
\* whatever other calls are doing, and while every call made so far was
\* rejected all four counters are zero.
C28_RejectedLeavesCounters ==
    /\ [][\A p \in Calls :
            (pc[p] = "idle" /\ pc'[p] # "idle" /\ RejectedQuery(query'[p]))
                => stats' = stats]_vars
    /\ []((\A p \in Calls : pc[p] # "idle" => RejectedQuery(query[p]))
            => stats = ZeroSnapshot)

\* an over-length query was rejected after another call had been counted,
\* and the counters still show the one call
C28_Witness ==
    /\ MaxCalls >= 2
    /\ pc[1] = "returned" /\ ~RejectedQuery(query[1])
    /\ pc[2] = "returned" /\ StrLen(query[2]) > MaxQueryLen
    /\ stats.queries_processed = 1
    /\ stats.creative_queries + stats.logical_queries + stats.hybrid_queries = 1

\* the sum of the three per-Intent counters
IntentSum == stats.creative_queries + stats.logical_queries + stats.hybrid_queries

\* the calls between the fetch_add on queries_processed and the fetch_add on
\* the counter of their Intent
Counting == {p \in Calls : pc[p] = "match"}

\* C29: in every state of the counters queries_processed is at least the sum
\* of the three per-Intent counters; the difference is the number of calls
\* between their two increments, so the two are equal whenever no call is
\* between them, in particular when every call has returned.
C29_TotalAtLeastSum ==
    /\ stats.queries_processed >= IntentSum
    /\ stats.queries_processed - IntentSum = Cardinality(Counting)
    /\ Counting = {} => stats.queries_processed = IntentSum

\* one call has made both increments and another only the first
C29_Witness ==
    /\ Cardinality(Counting) = 1
    /\ stats.queries_processed = 2
    /\ IntentSum = 1

\* the token of a Logical query the deterministic module finds too long
DetTooLongToken ==
    DetErrorTag \o MsgDetTooLongPre \o <<"1", "0", "0", "0", "0">> \o MsgDetTooLongPost

\* C30: a Logical query of at most MaxQueryLen and more than
\* max_query_length bytes passes the validation of process_query: it is
\* counted as processed and as Logical, dispatched to one execute_logic call
\* on the query, and its stream is exactly one token, the
\* "[deterministic error]" message of the length limit of the deterministic
\* module, not a validation diagnostic.
C30_LongLogicalIsDetError ==
    \A p \in Calls :
        (/\ pc[p] = "returned" /\ intent[p] = "Logical"
         /\ StrLen(query[p]) > max_query_length) =>
            /\ StrLen(query[p]) <= MaxQueryLen
            /\ stats.queries_processed >= 1 /\ stats.logical_queries >= 1
            /\ DetArgs(p) = <<query[p]>>
            /\ ~det_calls[p][1].res.ok
            /\ infer_calls[p] = <<>> /\ prod[p] = NoProd
            /\ OneTokenStream(p, DetTooLongToken)
            /\ IsPrefix(DetErrorTag, DetTooLongToken)
            /\ DetTooLongToken \notin {MsgQueryTooLong, MsgEmptyQuery}

\* the Logical query of exactly MaxQueryLen bytes, drained to the one token
C30_Witness ==
    /\ query[1] = QLogicalMax /\ intent[1] = "Logical"
    /\ StrLen(query[1]) = MaxQueryLen
    /\ cons[1] = "complete"
    /\ output[1] = <<DetTooLongToken>>
    /\ stats.queries_processed = 1 /\ stats.logical_queries = 1

\* C32: after any sequence of add_node calls the ids of the nodes of the
\* scene are unique: no two nodes have the same id and no added node has the
\* id 0 of the root, also when two nodes were added under the same name.
C32_NodeIdsUnique ==
    /\ \A i, j \in 1..Len(scene.nodes) :
          i # j => scene.nodes[i].id # scene.nodes[j].id
    /\ \A i \in 1..Len(scene.nodes) : scene.nodes[i].id # 0

\* the events of one command, in the order they were emitted
EventsOf(p) == events[p]

\* the payloads of the query-token events of one command, in order
TokensEmitted(p) ==
    LET tok == SelectSeq(EventsOf(p), LAMBDA e : e.name = "query-token")
    IN  [i \in 1..Len(tok) |-> tok[i].token]

CompletesEmitted(p) ==
    Len(SelectSeq(EventsOf(p), LAMBDA e : e.name = "query-complete"))

\* what the stream of a returned call yields when it is drained
StreamOutput(p) ==
    IF intent[p] = "none" THEN <<Rejection[query[p]][1].tok>>
    ELSE IF intent[p] = "Logical" THEN <<handle_logical_stream(det_calls[p][1].res)[1].tok>>
    ELSE IF intent[p] = "Creative" THEN GenTokens(query[p])
    ELSE IF InferOk(p) THEN GenTokens(query[p]) \o <<ReportOf(p)>>
    ELSE <<HybridErrorTag \o infer_calls[p][1].text>>

\* C31: for every process_query command of the Tauri bridge, also with
\* several queries streamed at once: its query-token events carry the tokens
\* of its stream in the order of the output sequence; query-complete is
\* emitted at most once, as the last event of the command, after the
\* query-token event of every token of the stream; and it is emitted, so
\* exactly once.
C31_CompleteOnceAfterTokens ==
    /\ [](\A p \in Calls :
            /\ CompletesEmitted(p) <= 1
            /\ pc[p] = "returned" => IsPrefix(TokensEmitted(p), StreamOutput(p))
            /\ pc[p] # "returned" => EventsOf(p) = <<>>
            /\ CompletesEmitted(p) = 1 =>
                  /\ EventsOf(p)[Len(EventsOf(p))].name = "query-complete"
                  /\ TokensEmitted(p) = StreamOutput(p))
    /\ \A p \in Calls : (pc[p] # "idle") ~> (CompletesEmitted(p) = 1)

\* a command whose task has emitted a token and has more of its stream to emit
C31_Streaming(p) ==
    /\ pc[p] = "returned" /\ cons[p] = "polling"
    /\ TokensEmitted(p) # <<>>
    /\ Len(TokensEmitted(p)) < Len(StreamOutput(p))

\* two queries streamed at once, a Hybrid one and a Creative one
C31_Witness ==
    /\ C31_Streaming(1) /\ C31_Streaming(2)
    /\ intent[1] = "Hybrid" /\ intent[2] = "Creative"

====
